---- MODULE Spec2Model ----
(***************************************************************************)
(* A model of ngres, the NeoGeo resource compiler (tools/ngres.py), and of *)
(* the helpers beside it (tools/neo_rom.py, tools/srom_utils.py,           *)
(* tools/gen_solid_tile.py).                                               *)
(*                                                                         *)
(* The compiler is a single-threaded batch pipeline, so the module holds   *)
(* one specification per component:                                        *)
(*   SpecCodec    the two ADPCM encoder objects, sample by sample          *)
(*   SpecEncode   ADPCM_x.encode(): reset, padding, the emitted codes      *)
(*   SpecPack     pack_adpcm on short code sequences                       *)
(*   SpecAudio    main()'s audio loops: address allocation in the V-ROM    *)
(*   SpecPalette  main()'s palette loop and process_visual_asset's         *)
(*                palette resolution                                       *)
(*   SpecTile     tile_to_crom and interleave_c_roms                       *)
(* Each specification moves its own variables and leaves the others at     *)
(* their idle values.  Python integers are unbounded, so no width is       *)
(* modelled; x >> k is x \div 2^k (both floor), x & (2^k - 1) is           *)
(* x % 2^k.                                                                *)
(***************************************************************************)
EXTENDS Integers, Sequences, FiniteSets, TLC

VARIABLES
    \* ---- SpecCodec: one encoder object of each class and an independent decoder
    codec,        \* "A" or "B": the class of the encoder object under test
    encA,         \* ADPCM_A fields: [step_index, sample12]
    encB,         \* ADPCM_B fields: [step_size, sample16]
    decA,         \* an independent ADPCM_A decoder fed the emitted codes
    decB,         \* an independent ADPCM_B decoder fed the emitted codes
    nsamples,     \* samples encoded since the last reset
    last_code,    \* the code emitted by the last _encode_sample call (-1: none)
    \* ---- SpecEncode: one call of encode_s16()/encode() on the encoder object
    epc,          \* "idle" | "encoding" | "done": where the encode() call stands
    stream,       \* the input stream: [len, pat], sample i is Sample16(pat, i)
    pad_len,      \* encode()'s pad_len
    pos,          \* index of the next element of samples + padding to encode
    adpcms,       \* the codes emitted so far, in order
    \* ---- SpecPack: pack_adpcm
    ppc,            \* "build" | "packed" | "IndexError"
    adpcm_nibbles,  \* pack_adpcm's argument
    packed,         \* pack_adpcm's result
    \* ---- SpecAudio: main()'s audio section
    apc,                   \* "sfx" | "music" | "done" | "exit1"
    sound_effects_config,  \* per configured sound effect: samples in its source
    music_config,          \* per configured music track: samples in its source
    audio_offset,          \* main()'s audio_offset
    all_v1_data,           \* len(all_v1_data): only the length is modelled
    sfx_info_list,         \* the sfx_info records, in order
    music_info_list,       \* the music_info records, in order
    \* ---- SpecPalette: main()'s palette loop and visual-asset loop
    vpc,               \* "palettes" | "visual" | "done" | "exit1" | "traceback"
    palettes_done,     \* how many entries of palettes_config were processed
    palette_registry,  \* name -> [index, colors]; the '_next_index' key is apart
    next_index,        \* palette_registry['_next_index']
    visual_assets,     \* the asset definitions the visual loop has taken, in order
    assets_info,       \* the asset_info records, in order
    palette,           \* main()'s `palette`: what the last asset was indexed with
    auto_assigned,     \* history: the names given an index from the counter, in order
    \* ---- SpecTile: tile_to_crom followed by interleave_c_roms
    tpc,               \* "tile" | "crom" | "neo"
    tile,              \* the 16x16 tile, tile[y + 1][x + 1] a palette index
    c1_data,           \* tile_to_crom's first buffer
    c2_data,           \* tile_to_crom's second buffer
    c_data,            \* build_neo_file's interleaved C-ROM data
    \* ---- SpecFrames: process_visual_asset's tile and tilemap loops
    fpc,               \* "tiles" | "tilemap" | "done"
    tiles_x,           \* frame_width // 16
    tiles_y,           \* frame_height // 16
    frame_count,       \* len(frames)
    frame_idx,         \* the frame the outer loop is at
    tx,                \* the tile column the tile loop is at
    ty,                \* the tile row the tile loop is at
    crom_tiles,        \* per tile appended to the planes: its frame and pixel span
    tilemap,           \* the tilemap list
    \* ---- SpecSrom: pixels_to_srom_tile
    srpc,              \* "pixels" | "tile"
    pixels_8x8,        \* the 8x8 grid, pixels_8x8[row + 1][col + 1]
    srom_tile,         \* the bytes pixels_to_srom_tile returns
    \* ---- SpecIndex: index_frame_with_palette
    ipc,               \* "index" | "done"
    iframe,            \* the pixels of the frame argument
    ipalette,          \* the palette argument
    indexed,           \* the indexed list so far
    \* ---- SpecColor: rgb5_to_neogeo_color and process_palette_def's decoding
    cpc,               \* "hw" | "rgb" | "encoded" | "decoded" | "done"
    hw_color,          \* a colour in hardware format, or None
    rgb5,              \* a colour as (r, g, b), 5 bits each, or << >>
    hw_again,          \* rgb5 encoded, or None
    rgb5_again,        \* hw_again decoded, or << >>
    \* ---- SpecTmx: parse_tmx_file
    xpc,               \* "parse" | "ok" | "NGResError" | "AttributeError" | "idle"
    tmx,               \* the TMX document at tmx_path
    layer_arg,         \* the layer_name argument, "" for None
    tmx_result,        \* what parse_tmx_file returns, or << >>
    \* ---- SpecTilemap: process_tilemap_asset
    mpc,               \* "process" | "done" | "NGResError" | "AttributeError" | "idle"
    tilemap_def,       \* the tilemap definition, with the TMX document of its source
    tilemap_info,      \* the tilemap_info returned, or << >>
    \* ---- SpecMain: main() from the palette loop to the output files
    rpc,               \* "palettes" | "visual" | "audio" | "tilemaps" | "write_c1" | ... | "done" | "exit1" | "idle"
    config,            \* the merged configuration: palettes, visual_assets, tilemaps
    registered,        \* the palettes registered so far
    base_tile,         \* the next free tile
    all_c1_data,       \* len(all_c1_data)
    all_c2_data,       \* len(all_c2_data)
    visual_infos,      \* assets_info: base tile and tile count per processed asset
    tilemap_info_list, \* the tilemaps processed, by position
    written,           \* the output files written, in order, with their sizes
    exit_status,       \* None while running, 1 after sys.exit(1), 0 at the end
    \* ---- SpecReuse: encode() called again on the same encoder object
    encode_calls,      \* the encode() calls made on the object so far
    prev_state,        \* the codec state the latest call found, << >> before the first
    \* ---- SpecAnim: the animations of a visual asset
    npc,               \* "anim" | "done" | "NGResError" | "ValueError" | "IndexError" | "idle"
    animation,         \* the animation entry of the asset definition
    asset_frames,      \* frame_count of the asset, from extract_frames
    anim_defs          \* the anim_defs built

codecVars == <<codec, encA, encB, decA, decB, nsamples, last_code>>

encodeVars == <<epc, stream, pad_len, pos, adpcms>>

packVars == <<ppc, adpcm_nibbles, packed>>

audioVars == <<apc, sound_effects_config, music_config, audio_offset,
               all_v1_data, sfx_info_list, music_info_list>>

paletteVars == <<vpc, palettes_done, palette_registry, next_index, visual_assets,
                 assets_info, palette, auto_assigned>>

tileVars == <<tpc, tile, c1_data, c2_data, c_data>>

framesVars == <<fpc, tiles_x, tiles_y, frame_count, frame_idx, tx, ty,
                crom_tiles, tilemap>>

sromVars == <<srpc, pixels_8x8, srom_tile>>

indexVars == <<ipc, iframe, ipalette, indexed>>

colorVars == <<cpc, hw_color, rgb5, hw_again, rgb5_again>>

tmxVars == <<xpc, tmx, layer_arg, tmx_result>>

tilemapVars == <<mpc, tilemap_def, tilemap_info>>

mainVars == <<rpc, config, registered, base_tile, all_c1_data, all_c2_data,
              visual_infos, tilemap_info_list, written, exit_status>>

reuseVars == <<encode_calls, prev_state>>

animVars == <<npc, animation, asset_frames, anim_defs>>

vars == <<codecVars, encodeVars, packVars, audioVars, paletteVars, tileVars,
          framesVars, sromVars, indexVars, colorVars, tmxVars, tilemapVars,
          mainVars, reuseVars, animVars>>

\* what the actions of each specification leave alone
exceptCodec == <<encodeVars, packVars, audioVars, paletteVars, tileVars,
                 framesVars, sromVars, indexVars, colorVars, tmxVars,
                 tilemapVars, mainVars, reuseVars, animVars>>

exceptEncode == <<packVars, audioVars, paletteVars, tileVars, framesVars,
                  sromVars, indexVars, colorVars, tmxVars, tilemapVars,
                  mainVars, reuseVars, animVars>>

exceptPack == <<codecVars, encodeVars, audioVars, paletteVars, tileVars,
                framesVars, sromVars, indexVars, colorVars, tmxVars,
                tilemapVars, mainVars, reuseVars, animVars>>

exceptAudio == <<codecVars, encodeVars, packVars, paletteVars, tileVars,
                 framesVars, sromVars, indexVars, colorVars, tmxVars,
                 tilemapVars, mainVars, reuseVars, animVars>>

exceptPalette == <<codecVars, encodeVars, packVars, audioVars, tileVars,
                   framesVars, sromVars, indexVars, colorVars, tmxVars,
                   tilemapVars, mainVars, reuseVars, animVars>>

exceptTile == <<codecVars, encodeVars, packVars, audioVars, paletteVars,
                framesVars, sromVars, indexVars, colorVars, tmxVars,
                tilemapVars, mainVars, reuseVars, animVars>>

exceptFrames == <<codecVars, encodeVars, packVars, audioVars, paletteVars,
                  tileVars, sromVars, indexVars, colorVars, tmxVars,
                  tilemapVars, mainVars, reuseVars, animVars>>

exceptSrom == <<codecVars, encodeVars, packVars, audioVars, paletteVars,
                tileVars, framesVars, indexVars, colorVars, tmxVars,
                tilemapVars, mainVars, reuseVars, animVars>>

exceptIndex == <<codecVars, encodeVars, packVars, audioVars, paletteVars,
                 tileVars, framesVars, sromVars, colorVars, tmxVars,
                 tilemapVars, mainVars, reuseVars, animVars>>

exceptColor == <<codecVars, encodeVars, packVars, audioVars, paletteVars,
                 tileVars, framesVars, sromVars, indexVars, tmxVars,
                 tilemapVars, mainVars, reuseVars, animVars>>

exceptTmx == <<codecVars, encodeVars, packVars, audioVars, paletteVars,
               tileVars, framesVars, sromVars, indexVars, colorVars,
               tilemapVars, mainVars, reuseVars, animVars>>

exceptTilemap == <<codecVars, encodeVars, packVars, audioVars, paletteVars,
                   tileVars, framesVars, sromVars, indexVars, colorVars,
                   tmxVars, mainVars, reuseVars, animVars>>

exceptMain == <<codecVars, encodeVars, packVars, audioVars, paletteVars,
                tileVars, framesVars, sromVars, indexVars, colorVars, tmxVars,
                tilemapVars, reuseVars, animVars>>

exceptReuse == <<codecVars, encodeVars, packVars, audioVars, paletteVars,
                 tileVars, framesVars, sromVars, indexVars, colorVars, tmxVars,
                 tilemapVars, mainVars, animVars>>

exceptAnim == <<codecVars, encodeVars, packVars, audioVars, paletteVars,
                tileVars, framesVars, sromVars, indexVars, colorVars, tmxVars,
                tilemapVars, mainVars, reuseVars>>

\* ------------------------------------------------------------------ helpers

\* Python's None where the value is otherwise a natural number
None == -1

Abs(x) == IF x < 0 THEN -x ELSE x

Min(a, b) == IF a < b THEN a ELSE b

Max(a, b) == IF a > b THEN a ELSE b

\* max(lo, min(x, hi)) as the codecs write it
Clamp(x, lo, hi) == Max(lo, Min(x, hi))

RECURSIVE Pow2(_)
Pow2(k) == IF k = 0 THEN 1 ELSE 2 * Pow2(k - 1)

\* (x >> k) & 1 for an integer x >= 0
Bit(x, k) == (x \div Pow2(k)) % 2

\* ------------------------------------------------------------ ADPCM-A codec

STEP_SIZE ==
    << 16,   17,   19,   21,   23,   25,   28,
       31,   34,   37,   41,   45,   50,   55,
       60,   66,   73,   80,   88,   97,  107,
       118, 130,  143,  157,  173,  190,  209,
       230, 253,  279,  307,  337,  371,  408,
       449, 494,  544,  598,  658,  724,  796,
       876, 963, 1060, 1166, 1282, 1411, 1552 >>

STEP_ADJ == << -1, -1, -1, -1, 2, 5, 7, 9 >>

ADPCM_A_reset == [step_index |-> 0, sample12 |-> 0]

\* A decoder that forgets to clamp the decoded sample.
ADPCM_A_decode_unclamped(st, adpcm4) ==
    LET step_size == STEP_SIZE[st.step_index + 1]
        sign == (adpcm4 \div 8) % 2
        magnitude == adpcm4 % 8
        q == ((2 * magnitude + 1) * step_size) \div 8
        quantized_diff == IF sign = 1 THEN -q ELSE q
    IN  [step_index |-> Min(48, Max(0, st.step_index + STEP_ADJ[magnitude + 1])),
         sample12 |-> st.sample12 + quantized_diff]

\* ADPCM_A._decode_sample: the state after decoding one 4-bit code
ADPCM_A_decode_sample(st, adpcm4) ==
    LET step_size == STEP_SIZE[st.step_index + 1]
        sign == (adpcm4 \div 8) % 2
        magnitude == adpcm4 % 8
        q == ((2 * magnitude + 1) * step_size) \div 8
        quantized_diff == IF sign = 1 THEN -q ELSE q
        decoded == Clamp(st.sample12 + quantized_diff, -2048, 2047)
        new_index == Clamp(st.step_index + STEP_ADJ[magnitude + 1], 0, 48)
    IN  [step_index |-> new_index, sample12 |-> decoded]

\* The 4-bit code ADPCM_A._encode_sample chooses (successive thresholding)
ADPCM_A_code(st, s12) ==
    LET diff0 == s12 - st.sample12
        sign == IF diff0 < 0 THEN 8 ELSE 0
        d0 == Abs(diff0)
        t0 == STEP_SIZE[st.step_index + 1]
        m2 == IF d0 >= t0 THEN 4 ELSE 0
        d1 == IF d0 >= t0 THEN d0 - t0 ELSE d0
        t1 == t0 \div 2
        m1 == IF d1 >= t1 THEN 2 ELSE 0
        d2 == IF d1 >= t1 THEN d1 - t1 ELSE d1
        t2 == t1 \div 2
        m0 == IF d2 >= t2 THEN 1 ELSE 0
    IN  sign + m2 + m1 + m0

\* An encoder that tracks the input sample instead of its own decoder's output.
ADPCM_A_encode_tracks_input(st, s12) ==
    [adpcm4 |-> ADPCM_A_code(st, s12),
     state |-> [ADPCM_A_decode_sample(st, ADPCM_A_code(st, s12)) EXCEPT !.sample12 = s12]]

\* ADPCM_A._encode_sample: the emitted code and the state it leaves
ADPCM_A_encode_sample(st, s12) ==
    [adpcm4 |-> ADPCM_A_code(st, s12),
     state |-> ADPCM_A_decode_sample(st, ADPCM_A_code(st, s12))]

\* ------------------------------------------------------------ ADPCM-B codec

STEP_TABLE == << 57, 57, 57, 57, 77, 102, 128, 153 >>

ADPCM_B_reset == [step_size |-> 127, sample16 |-> 0]

\* A decoder whose step adaptation is not clamped from above.
ADPCM_B_decode_step_unclamped(st, adpcm4) ==
    LET sign == (adpcm4 \div 8) % 2
        magnitude == adpcm4 % 8
        q == ((2 * magnitude + 1) * st.step_size) \div 8
        quantized_diff == IF sign = 1 THEN -q ELSE q
    IN  [step_size |-> Max(127, (st.step_size * STEP_TABLE[magnitude + 1]) \div 64),
         sample16 |-> Clamp(st.sample16 + quantized_diff, -32768, 32767)]

\* ADPCM_B._decode_sample
ADPCM_B_decode_sample(st, adpcm4) ==
    LET sign == (adpcm4 \div 8) % 2
        magnitude == adpcm4 % 8
        q == ((2 * magnitude + 1) * st.step_size) \div 8
        quantized_diff == IF sign = 1 THEN -q ELSE q
        decoded == Clamp(st.sample16 + quantized_diff, -32768, 32767)
        new_step == Clamp((st.step_size * STEP_TABLE[magnitude + 1]) \div 64, 127, 24576)
    IN  [step_size |-> new_step, sample16 |-> decoded]

\* The 4-bit code ADPCM_B._encode_sample chooses.  The source computes
\* (abs(diff) << 16) // (step_size << 14); the common factor 2^14 is cancelled
\* here (floor((d * 2^16) / (s * 2^14)) = floor((4 * d) / s)) to stay within the
\* model checker's 32-bit integers.
ADPCM_B_code(st, s16) ==
    LET diff == s16 - st.sample16
        magnitude == Min((Abs(diff) * 4) \div st.step_size, 7)
        sign == IF diff < 0 THEN 8 ELSE 0
    IN  sign + magnitude

\* ADPCM_B._encode_sample
ADPCM_B_encode_sample(st, s16) ==
    [adpcm4 |-> ADPCM_B_code(st, s16),
     state |-> ADPCM_B_decode_sample(st, ADPCM_B_code(st, s16))]

\* ------------------------------------------------------- SpecCodec: actions

\* Samples fed to the encoders: the extremes of each range and values near 0.
SamplesA == {-2048, -1, 0, 2047}

SamplesB == {-32768, -1, 0, 32767}

\* Samples encoded per stream in SpecCodec.
MaxSamples == 7

CodecIdle ==
    /\ codec = "A"
    /\ encA = ADPCM_A_reset
    /\ encB = ADPCM_B_reset
    /\ decA = ADPCM_A_reset
    /\ decB = ADPCM_B_reset
    /\ nsamples = 0
    /\ last_code = -1

\* ADPCM_A() / ADPCM_B(): __init__ calls reset()
CodecInit ==
    /\ codec \in {"A", "B"}
    /\ encA = ADPCM_A_reset
    /\ encB = ADPCM_B_reset
    /\ decA = ADPCM_A_reset
    /\ decB = ADPCM_B_reset
    /\ nsamples = 0
    /\ last_code = -1

\* reset(), as encode() calls it at the start of a stream; the independent
\* decoder starts over with the stream
CodecReset ==
    /\ nsamples > 0
    /\ encA' = ADPCM_A_reset
    /\ encB' = ADPCM_B_reset
    /\ decA' = ADPCM_A_reset
    /\ decB' = ADPCM_B_reset
    /\ nsamples' = 0
    /\ last_code' = -1
    /\ UNCHANGED codec
    /\ UNCHANGED exceptCodec

\* ADPCM_A._encode_sample(s); the independent decoder decodes the emitted code
EncodeSampleA(s) ==
    /\ codec = "A"
    /\ nsamples < MaxSamples
    /\ LET r == ADPCM_A_encode_sample(encA, s)
       IN  /\ encA' = r.state
           /\ last_code' = r.adpcm4
           /\ decA' = ADPCM_A_decode_sample(decA, r.adpcm4)
    /\ nsamples' = nsamples + 1
    /\ UNCHANGED <<codec, encB, decB>>
    /\ UNCHANGED exceptCodec

\* ADPCM_B._encode_sample(s); the independent decoder decodes the emitted code
EncodeSampleB(s) ==
    /\ codec = "B"
    /\ nsamples < MaxSamples
    /\ LET r == ADPCM_B_encode_sample(encB, s)
       IN  /\ encB' = r.state
           /\ last_code' = r.adpcm4
           /\ decB' = ADPCM_B_decode_sample(decB, r.adpcm4)
    /\ nsamples' = nsamples + 1
    /\ UNCHANGED <<codec, encA, decA>>
    /\ UNCHANGED exceptCodec

EncodeIdle ==
    /\ epc = "idle"
    /\ stream = [len |-> 0, pat |-> 0]
    /\ pad_len = 0
    /\ pos = 0
    /\ adpcms = << >>

PackIdle ==
    /\ ppc = "build"
    /\ adpcm_nibbles = << >>
    /\ packed = << >>

AudioIdle ==
    /\ apc = "done"
    /\ sound_effects_config = << >>
    /\ music_config = << >>
    /\ audio_offset = 0
    /\ all_v1_data = 0
    /\ sfx_info_list = << >>
    /\ music_info_list = << >>

PaletteIdle ==
    /\ vpc = "done"
    /\ palettes_done = 0
    /\ palette_registry = << >>
    /\ next_index = 2
    /\ visual_assets = << >>
    /\ assets_info = << >>
    /\ palette = << >>
    /\ auto_assigned = << >>

TileIdle ==
    /\ tpc = "neo"
    /\ tile = << >>
    /\ c1_data = << >>
    /\ c2_data = << >>
    /\ c_data = << >>

FramesIdle ==
    /\ fpc = "done"
    /\ tiles_x = 0
    /\ tiles_y = 0
    /\ frame_count = 0
    /\ frame_idx = 0
    /\ tx = 0
    /\ ty = 0
    /\ crom_tiles = << >>
    /\ tilemap = << >>

SromIdle ==
    /\ srpc = "tile"
    /\ pixels_8x8 = << >>
    /\ srom_tile = << >>

IndexIdle ==
    /\ ipc = "done"
    /\ iframe = << >>
    /\ ipalette = << >>
    /\ indexed = << >>

ColorIdle ==
    /\ cpc = "done"
    /\ hw_color = -1
    /\ rgb5 = << >>
    /\ hw_again = -1
    /\ rgb5_again = << >>

TmxIdle ==
    /\ xpc = "idle"
    /\ tmx = << >>
    /\ layer_arg = ""
    /\ tmx_result = << >>

TilemapIdle ==
    /\ mpc = "idle"
    /\ tilemap_def = << >>
    /\ tilemap_info = << >>

MainIdle ==
    /\ rpc = "idle"
    /\ config = << >>
    /\ registered = 0
    /\ base_tile = 0
    /\ all_c1_data = 0
    /\ all_c2_data = 0
    /\ visual_infos = << >>
    /\ tilemap_info_list = << >>
    /\ written = << >>
    /\ exit_status = None

ReuseIdle ==
    /\ encode_calls = 0
    /\ prev_state = << >>

AnimIdle ==
    /\ npc = "idle"
    /\ animation = << >>
    /\ asset_frames = 0
    /\ anim_defs = << >>

CodecNext ==
    \/ \E s \in SamplesA : EncodeSampleA(s)
    \/ \E s \in SamplesB : EncodeSampleB(s)
    \/ CodecReset

InitCodec ==
    /\ CodecInit /\ EncodeIdle /\ PackIdle /\ AudioIdle /\ PaletteIdle
    /\ TileIdle /\ FramesIdle /\ SromIdle /\ IndexIdle /\ ColorIdle /\ TmxIdle
    /\ TilemapIdle
    /\ MainIdle
    /\ ReuseIdle
    /\ AnimIdle

SpecCodec == InitCodec /\ [][CodecNext]_vars

\* C1: in every reachable state of the fixed-rate encoder (ADPCM_A), after any
\* sequence of 12-bit samples, the predicted sample is in [-2048, 2047] and the
\* step index is in [0, 48].
C1_RangeA ==
    codec = "A" =>
        /\ encA.sample12 \in -2048..2047
        /\ encA.step_index \in 0..48

\* The encoder has been driven to the top of both ranges.
C1_Witness ==
    /\ codec = "A"
    /\ nsamples > 0
    /\ encA.sample12 = 2047
    /\ encA.step_index = 48

\* C2: in every reachable state of the variable-rate encoder (ADPCM_B), after
\* any sequence of 16-bit samples, the predicted sample is in [-32768, 32767]
\* and the step size is in [127, 24576].
C2_RangeB ==
    codec = "B" =>
        /\ encB.sample16 \in -32768..32767
        /\ encB.step_size \in 127..24576

\* The encoder has been driven to the top step size and the bottom of the
\* sample range.
C2_Witness ==
    /\ codec = "B"
    /\ nsamples > 0
    /\ encB.step_size = 24576
    /\ encB.sample16 = -32768

\* C3: for both codecs an independent decoder that starts from reset and
\* decodes the emitted codes holds, after every sample, exactly the encoder's
\* (predicted, step) state; and each encoder step is the decode step applied
\* to the previous state and the emitted code, whatever the input sample was.
C3_DecoderTracksEncoder ==
    /\ [](decA = encA /\ decB = encB)
    /\ [][(nsamples' = nsamples + 1) =>
            /\ codec = "A" => encA' = ADPCM_A_decode_sample(encA, last_code')
            /\ codec = "B" => encB' = ADPCM_B_decode_sample(encB, last_code')]_vars

\* A full stream has been encoded and decoded, ending on a negative code, with
\* the state away from reset.
C3_Witness ==
    /\ codec = "B"
    /\ nsamples = MaxSamples
    /\ last_code >= 8
    /\ decB = encB
    /\ encB.sample16 # 0
    /\ encB.step_size > 127

\* ------------------------------------------------- SpecEncode: encode()

\* Input streams are whole 512-sample blocks, one sample more or one less,
\* and the two shortest streams; MaxBlocks bounds the padded length in blocks.
MaxBlocks == 2

StreamLens ==
    {0, 1} \cup {b * 512 + d : b \in 1..(MaxBlocks - 1), d \in {-1, 0, 1}}

\* 16-bit sample i of the stream patterns: silence, alternating extremes, a
\* sawtooth over the whole range, and a constant maximum.
Patterns == 0..3

Sample16(pat, i) ==
    CASE pat = 0 -> 0
      [] pat = 1 -> IF i % 2 = 0 THEN 32767 ELSE -32768
      [] pat = 2 -> ((i * 2731) % 65536) - 32768
      [] OTHER -> 32767

\* A padded length that rounds a whole number of blocks up by one more block.
PadLenOffByOne(n) == ((n + 512) \div 512) * 512

\* encode(): pad_len = ((len(samples) + 511) // 512) * 512
PadLen(n) == ((n + 511) \div 512) * 512

\* Element i of encode()'s `samples + padding`: ADPCM_A.encode_s16 first
\* converts every input sample to 12 bits (s >> 4), ADPCM_B.encode_s16 passes
\* the samples on; the padding is zeros.
EncodeInput(c, st, i) ==
    IF i >= st.len THEN 0
    ELSE IF c = "A" THEN Sample16(st.pat, i) \div 16
    ELSE Sample16(st.pat, i)

\* encode_s16(samples) is called: encode() resets the codec and sizes the padding
EncodeBegin(n, p) ==
    /\ epc = "idle"
    /\ stream' = [len |-> n, pat |-> p]
    /\ encA' = ADPCM_A_reset
    /\ encB' = ADPCM_B_reset
    /\ pad_len' = PadLen(n)
    /\ pos' = 0
    /\ adpcms' = << >>
    /\ epc' = "encoding"
    /\ UNCHANGED <<codec, decA, decB, nsamples, last_code>>
    /\ UNCHANGED exceptEncode

\* one iteration of [self._encode_sample(s) for s in samples + padding]
EncodeStep ==
    /\ epc = "encoding"
    /\ pos < pad_len
    /\ IF codec = "A"
       THEN LET r == ADPCM_A_encode_sample(encA, EncodeInput("A", stream, pos))
            IN  /\ encA' = r.state
                /\ adpcms' = Append(adpcms, r.adpcm4)
                /\ UNCHANGED encB
       ELSE LET r == ADPCM_B_encode_sample(encB, EncodeInput("B", stream, pos))
            IN  /\ encB' = r.state
                /\ adpcms' = Append(adpcms, r.adpcm4)
                /\ UNCHANGED encA
    /\ pos' = pos + 1
    /\ UNCHANGED <<codec, decA, decB, nsamples, last_code, epc, stream, pad_len>>
    /\ UNCHANGED exceptEncode

\* the comprehension is exhausted: encode() returns adpcms
EncodeEnd ==
    /\ epc = "encoding"
    /\ pos = pad_len
    /\ epc' = "done"
    /\ UNCHANGED <<codecVars, stream, pad_len, pos, adpcms>>
    /\ UNCHANGED exceptEncode

EncodeNext ==
    \/ \E n \in StreamLens, p \in Patterns : EncodeBegin(n, p)
    \/ EncodeStep
    \/ EncodeEnd

InitEncode ==
    /\ CodecInit /\ EncodeIdle /\ PackIdle /\ AudioIdle /\ PaletteIdle
    /\ TileIdle /\ FramesIdle /\ SromIdle /\ IndexIdle /\ ColorIdle /\ TmxIdle
    /\ TilemapIdle
    /\ MainIdle
    /\ ReuseIdle
    /\ AnimIdle

SpecEncode == InitEncode /\ [][EncodeNext]_vars

\* ceil(n / d) by cases, for the statement of C5
CeilDiv(n, d) == IF n % d = 0 THEN n \div d ELSE (n \div d) + 1

\* The reference run for C5: the codes and final state obtained by encoding
\* elements lo..hi-1 of a sample source one after the other from state r.state,
\* with no reset in between.  `zeros` selects the all-zero source, otherwise
\* the stream's own samples are read.  (Split in halves, the left half
\* evaluated before the right one starts, to keep the evaluation shallow.)
RECURSIVE RefRun(_, _, _, _)
RefRun(r, lo, hi, zeros) ==
    IF lo >= hi THEN r
    ELSE IF hi = lo + 1
    THEN LET s == IF zeros THEN 0 ELSE EncodeInput(codec, stream, lo)
             e == IF codec = "A" THEN ADPCM_A_encode_sample(r.state, s)
                  ELSE ADPCM_B_encode_sample(r.state, s)
         IN  [state |-> e.state, codes |-> Append(r.codes, e.adpcm4)]
    ELSE LET left == RefRun(r, lo, (lo + hi) \div 2, zeros)
         IN  IF Len(left.codes) >= 0
             THEN RefRun(left, (lo + hi) \div 2, hi, zeros)
             ELSE left

\* C5: for both codecs, encoding a stream of n samples emits exactly
\* 512 * ceil(n / 512) codes; the first n are the encoding of the input samples
\* from the reset state and the rest are the encoding of zero samples continuing
\* from the state the input left (no reset in between); so the packed length
\* (two codes per byte) is a multiple of 256 bytes.
C5_PaddedEncode ==
    epc = "done" =>
        LET n == stream.len
            total == 512 * CeilDiv(n, 512)
            reset == IF codec = "A" THEN ADPCM_A_reset ELSE ADPCM_B_reset
            input == RefRun([state |-> reset, codes |-> << >>], 0, n, FALSE)
            padded == RefRun(input, n, total, TRUE)
        IN  /\ Len(adpcms) = total
            /\ SubSeq(adpcms, 1, n) = input.codes
            /\ adpcms = padded.codes
            /\ (IF codec = "A" THEN encA ELSE encB) = padded.state
            /\ Len(adpcms) % 2 = 0
            /\ (Len(adpcms) \div 2) % 256 = 0

\* A stream one sample longer than a block has been encoded: two blocks of
\* codes, the second almost all padding, and the padding codes not all equal.
C5_Witness ==
    /\ epc = "done"
    /\ stream.len = 513
    /\ stream.pat = 1
    /\ Len(adpcms) = 1024
    /\ adpcms[514] # adpcms[1024]

\* ------------------------------------------------------ SpecPack: pack_adpcm

RECURSIVE BitOr(_, _)
\* a | b for integers a, b >= 0
BitOr(a, b) ==
    IF a = 0 THEN b
    ELSE IF b = 0 THEN a
    ELSE 2 * BitOr(a \div 2, b \div 2) + (IF a % 2 = 1 \/ b % 2 = 1 THEN 1 ELSE 0)

\* A packer that puts the first code of each pair in the low nibble.
pack_adpcm_low_first(nib) ==
    [k \in 1..(Len(nib) \div 2) |-> BitOr(nib[2 * k] * 16, nib[2 * k - 1])]

\* pack_adpcm on an even-length list: byte k (from 0) is
\* (nibbles[2k] << 4) | nibbles[2k + 1]; sequences here are indexed from 1
pack_adpcm(nib) ==
    [k \in 1..(Len(nib) \div 2) |-> BitOr(nib[2 * k - 1] * 16, nib[2 * k])]

\* The 4-bit codes the packed lists are built from.
Nibbles == {0, 1, 6, 8, 9, 15}

\* Bytes packed per call in SpecPack.
MaxPackBytes == 2

\* the caller's list grows by one code
PackAppend(c) ==
    /\ ppc = "build"
    /\ Len(adpcm_nibbles) < 2 * MaxPackBytes
    /\ adpcm_nibbles' = Append(adpcm_nibbles, c)
    /\ UNCHANGED <<ppc, packed>>
    /\ UNCHANGED exceptPack

\* pack_adpcm(adpcm_nibbles): an odd-length list runs off its end at
\* adpcm_nibbles[i + 1]
PackCall ==
    /\ ppc = "build"
    /\ IF Len(adpcm_nibbles) % 2 = 0
       THEN /\ packed' = pack_adpcm(adpcm_nibbles)
            /\ ppc' = "packed"
       ELSE /\ ppc' = "IndexError"
            /\ UNCHANGED packed
    /\ UNCHANGED adpcm_nibbles
    /\ UNCHANGED exceptPack

PackNext ==
    \/ \E c \in Nibbles : PackAppend(c)
    \/ PackCall

InitPack ==
    /\ CodecIdle /\ EncodeIdle /\ PackIdle /\ AudioIdle /\ PaletteIdle
    /\ TileIdle /\ FramesIdle /\ SromIdle /\ IndexIdle /\ ColorIdle /\ TmxIdle
    /\ TilemapIdle
    /\ MainIdle
    /\ ReuseIdle
    /\ AnimIdle

SpecPack == InitPack /\ [][PackNext]_vars

\* Unpacking for the statement of C6: every byte gives its high nibble, then
\* its low nibble.
Unpack(bytes) ==
    [i \in 1..(2 * Len(bytes)) |->
        IF i % 2 = 1 THEN bytes[(i + 1) \div 2] \div 16 ELSE bytes[i \div 2] % 16]

\* C6: pack_adpcm on an even-length sequence of 4-bit codes gives one byte per
\* pair, byte k = code[2k] * 16 + code[2k+1] (first code in the high nibble, in
\* encode order); unpacking the bytes gives back the codes, and packing the
\* unpacked stream gives back the bytes.
C6_PackRoundTrip ==
    ppc = "packed" =>
        /\ Len(packed) * 2 = Len(adpcm_nibbles)
        /\ \A k \in 0..(Len(packed) - 1) :
              packed[k + 1] = adpcm_nibbles[2 * k + 1] * 16 + adpcm_nibbles[2 * k + 2]
        /\ Unpack(packed) = adpcm_nibbles
        /\ pack_adpcm(Unpack(packed)) = packed

\* Two bytes were packed from four codes, the codes of each pair and the two
\* pairs differing.
C6_Witness ==
    /\ ppc = "packed"
    /\ adpcm_nibbles = <<9, 6, 1, 15>>
    /\ packed = <<150, 31>>

\* --------------------------------------- SpecAudio: main()'s audio section

\* Sound effects and music tracks configured per run, each.
MaxAudio == 2

\* Samples in a source file after load_wav_file: an empty file, one sample,
\* a block and one sample, and a stream that packs to 65,534 units of 256
\* bytes (2^25 - 1024 samples), which brings the 16-bit address limit in reach.
AudioLens == {0, 1, 513, 33553408}

ConfigLists == UNION {[1..k -> AudioLens] : k \in 0..MaxAudio}

\* len(adpcm_data) for a source of n samples: encode_s16 emits PadLen(n)
\* codes (the conversions keep the length) and pack_adpcm packs two per byte
AdpcmDataLen(n) == PadLen(n) \div 2

\* An address computation that takes the first unit after the asset as its stop.
StopAddrPastEnd(current_offset, size) == (current_offset + size) \div 256

\* stop_addr = (current_offset + len(adpcm_data) - 1) // 256
StopAddr(current_offset, size) == (current_offset + size - 1) \div 256

\* process_sound_effect / process_music from the encoded data on: the domain
\* error when the stop address exceeds 0xFFFF, else the info record.  (The
\* name, the rates and music's delta_n fields do not enter the addresses and
\* are left out.)
ProcessAudio(n, index, current_offset) ==
    LET size == AdpcmDataLen(n)
        start_addr == current_offset \div 256
        stop_addr == StopAddr(current_offset, size)
    IN  IF stop_addr > 65535
        THEN [error |-> TRUE]
        ELSE [error |-> FALSE,
              size |-> size,
              info |-> [index |-> index,
                        start_addr_l |-> start_addr % 256,
                        start_addr_h |-> (start_addr \div 256) % 256,
                        stop_addr_l |-> stop_addr % 256,
                        stop_addr_h |-> (stop_addr \div 256) % 256,
                        size |-> size]]

\* main() up to the audio section, with the configuration loaded
AudioInit ==
    /\ apc = "sfx"
    /\ sound_effects_config \in ConfigLists
    /\ music_config \in ConfigLists
    /\ audio_offset = 0
    /\ all_v1_data = 0
    /\ sfx_info_list = << >>
    /\ music_info_list = << >>

\* A sound-effect loop that takes every entry of the list.
ProcessSoundEffectNoCap ==
    /\ apc = "sfx"
    /\ Len(sfx_info_list) < Len(sound_effects_config)
    /\ LET i == Len(sfx_info_list)
           r == ProcessAudio(sound_effects_config[i + 1], i, audio_offset)
       IN  IF r.error
           THEN /\ apc' = "exit1"
                /\ UNCHANGED <<audio_offset, all_v1_data, sfx_info_list>>
           ELSE /\ all_v1_data' = all_v1_data + r.size
                /\ sfx_info_list' = Append(sfx_info_list, r.info)
                /\ audio_offset' = audio_offset + r.size
                /\ UNCHANGED apc
    /\ UNCHANGED <<sound_effects_config, music_config, music_info_list>>
    /\ UNCHANGED exceptAudio

\* one iteration of main()'s sound-effect loop: i is the enumerate index,
\* which equals len(sfx_info_list) while no iteration has failed
ProcessSoundEffect ==
    /\ apc = "sfx"
    /\ Len(sfx_info_list) < Len(sound_effects_config)
    /\ Len(sfx_info_list) < 32
    /\ LET i == Len(sfx_info_list)
           r == ProcessAudio(sound_effects_config[i + 1], i, audio_offset)
       IN  IF r.error
           THEN /\ apc' = "exit1"
                /\ UNCHANGED <<audio_offset, all_v1_data, sfx_info_list>>
           ELSE /\ all_v1_data' = all_v1_data + r.size
                /\ sfx_info_list' = Append(sfx_info_list, r.info)
                /\ audio_offset' = audio_offset + r.size
                /\ UNCHANGED apc
    /\ UNCHANGED <<sound_effects_config, music_config, music_info_list>>
    /\ UNCHANGED exceptAudio

\* the sound-effect loop ends: the list is exhausted, or i >= 32 (warning, break)
SfxLoopEnd ==
    /\ apc = "sfx"
    /\ \/ Len(sfx_info_list) = Len(sound_effects_config)
       \/ Len(sfx_info_list) >= 32
    /\ apc' = "music"
    /\ UNCHANGED <<sound_effects_config, music_config, audio_offset, all_v1_data,
                   sfx_info_list, music_info_list>>
    /\ UNCHANGED exceptAudio

\* one iteration of main()'s music loop
ProcessMusic ==
    /\ apc = "music"
    /\ Len(music_info_list) < Len(music_config)
    /\ Len(music_info_list) < 32
    /\ LET i == Len(music_info_list)
           r == ProcessAudio(music_config[i + 1], i, audio_offset)
       IN  IF r.error
           THEN /\ apc' = "exit1"
                /\ UNCHANGED <<audio_offset, all_v1_data, music_info_list>>
           ELSE /\ all_v1_data' = all_v1_data + r.size
                /\ music_info_list' = Append(music_info_list, r.info)
                /\ audio_offset' = audio_offset + r.size
                /\ UNCHANGED apc
    /\ UNCHANGED <<sound_effects_config, music_config, sfx_info_list>>
    /\ UNCHANGED exceptAudio

\* the music loop ends
MusicLoopEnd ==
    /\ apc = "music"
    /\ \/ Len(music_info_list) = Len(music_config)
       \/ Len(music_info_list) >= 32
    /\ apc' = "done"
    /\ UNCHANGED <<sound_effects_config, music_config, audio_offset, all_v1_data,
                   sfx_info_list, music_info_list>>
    /\ UNCHANGED exceptAudio

AudioNext ==
    \/ ProcessSoundEffect
    \/ SfxLoopEnd
    \/ ProcessMusic
    \/ MusicLoopEnd

InitAudio ==
    /\ CodecIdle /\ EncodeIdle /\ PackIdle /\ AudioInit /\ PaletteIdle
    /\ TileIdle /\ FramesIdle /\ SromIdle /\ IndexIdle /\ ColorIdle /\ TmxIdle
    /\ TilemapIdle
    /\ MainIdle
    /\ ReuseIdle
    /\ AnimIdle

SpecAudio == InitAudio /\ [][AudioNext]_vars

\* the address records in input order: sound effects, then music tracks
AllInfos == sfx_info_list \o music_info_list

\* the 16-bit addresses a record holds in its low and high bytes
RecordedStart(info) == info.start_addr_l + 256 * info.start_addr_h

RecordedStop(info) == info.stop_addr_l + 256 * info.stop_addr_h

RECURSIVE SumSizes(_, _)
\* s_0 + ... + s_(k-1): the packed sizes of the first k recorded assets
SumSizes(infos, k) == IF k = 0 THEN 0 ELSE SumSizes(infos, k - 1) + infos[k].size

\* when main() has exited on an audio error: the samples of the asset it was
\* processing (a sound effect while that loop was not finished, else a track)
FailedAssetLen ==
    IF Len(sfx_info_list) < Min(Len(sound_effects_config), 32)
    THEN sound_effects_config[Len(sfx_info_list) + 1]
    ELSE music_config[Len(music_info_list) + 1]

\* C4: with the audio assets (sound effects, then music tracks, in input order)
\* of packed sizes s_0..s_(n-1) placed contiguously from offset 0, asset i's
\* recorded start address is floor((s_0 + .. + s_(i-1)) / 256) and its recorded
\* stop address is ceil((s_0 + .. + s_i) / 256) - 1; processing fails as soon as
\* an asset's stop address would exceed 0xFFFF, and that asset gets no record.
C4_AddressFormula ==
    /\ \A i \in 1..Len(AllInfos) :
          /\ RecordedStart(AllInfos[i]) = SumSizes(AllInfos, i - 1) \div 256
          /\ RecordedStop(AllInfos[i]) = CeilDiv(SumSizes(AllInfos, i), 256) - 1
          /\ CeilDiv(SumSizes(AllInfos, i), 256) - 1 <= 65535
    /\ apc = "exit1" =>
          CeilDiv(SumSizes(AllInfos, Len(AllInfos)) + AdpcmDataLen(FailedAssetLen), 256) - 1
              > 65535
    /\ apc \in {"sfx", "music"} => audio_offset = SumSizes(AllInfos, Len(AllInfos))

\* What the records do satisfy: the formula of C4 with both addresses taken
\* modulo 2^16.  An empty stream at offset 0 has stop -1, recorded as 0xFFFF;
\* an empty stream at offset 2^24 has start 0x10000, recorded as 0.
AddressFormulaWrapped ==
    /\ \A i \in 1..Len(AllInfos) :
          /\ RecordedStart(AllInfos[i]) = (SumSizes(AllInfos, i - 1) \div 256) % 65536
          /\ RecordedStop(AllInfos[i]) = (CeilDiv(SumSizes(AllInfos, i), 256) - 1) % 65536
          /\ CeilDiv(SumSizes(AllInfos, i), 256) - 1 <= 65535
    /\ apc = "exit1" =>
          CeilDiv(SumSizes(AllInfos, Len(AllInfos)) + AdpcmDataLen(FailedAssetLen), 256) - 1
              > 65535

\* The address formula of C4 holds as written for every asset whose stream is
\* not empty.
AddressFormulaNonEmpty ==
    \A i \in 1..Len(AllInfos) :
        AllInfos[i].size > 0 =>
            /\ RecordedStart(AllInfos[i]) = SumSizes(AllInfos, i - 1) \div 256
            /\ RecordedStop(AllInfos[i]) = CeilDiv(SumSizes(AllInfos, i), 256) - 1

\* C28: every recorded asset has start address <= stop address, its start
\* address times 256 is the offset of its first byte in the audio buffer, the
\* running offset is the buffer length and a multiple of 256, and the address
\* ranges of the assets are disjoint and increase in processing order; for
\* every stream length, the empty stream included.
C28_AddressRanges ==
    /\ audio_offset = all_v1_data
    /\ audio_offset % 256 = 0
    /\ \A i \in 1..Len(AllInfos) :
          /\ RecordedStart(AllInfos[i]) <= RecordedStop(AllInfos[i])
          /\ RecordedStart(AllInfos[i]) * 256 = SumSizes(AllInfos, i - 1)
          /\ \A j \in 1..(i - 1) : RecordedStop(AllInfos[j]) < RecordedStart(AllInfos[i])

\* What does hold: the offset is the buffer length and a multiple of 256 in
\* every run, and the address ranges are as C28 says as long as no recorded
\* asset is an empty stream.
AddressRangesNonEmpty ==
    /\ audio_offset = all_v1_data
    /\ audio_offset % 256 = 0
    /\ (\A k \in 1..Len(AllInfos) : AllInfos[k].size > 0) =>
          \A i \in 1..Len(AllInfos) :
              /\ RecordedStart(AllInfos[i]) <= RecordedStop(AllInfos[i])
              /\ RecordedStart(AllInfos[i]) * 256 = SumSizes(AllInfos, i - 1)
              /\ \A j \in 1..(i - 1) : RecordedStop(AllInfos[j]) < RecordedStart(AllInfos[i])

\* ------------------------------------------------- palettes: pure functions

\* palette slot 0: (-1, -1, -1), which no quantized colour equals
SENTINEL == <<-1, -1, -1>>

\* (r >> 3, g >> 3, b >> 3) of an RGBA pixel <<r, g, b, a>>
Quantize(px) == <<px[1] \div 8, px[2] \div 8, px[3] \div 8>>

RECURSIVE FramePixels(_)
\* frame.getdata() of every frame, one after the other
FramePixels(frames) ==
    IF frames = << >> THEN << >> ELSE Head(frames) \o FramePixels(Tail(frames))

\* The `colors` dict is a sequence of <<key, count>> in insertion order.
\* The dict after counting the pixels of l's run and then those of r's run.
ColorsMerge(l, r) ==
    LET InL(key) == \E i \in 1..Len(l) : l[i][1] = key
        CountInR(key) ==
            IF \E j \in 1..Len(r) : r[j][1] = key
            THEN r[CHOOSE j \in 1..Len(r) : r[j][1] = key][2]
            ELSE 0
    IN  [i \in 1..Len(l) |-> <<l[i][1], l[i][2] + CountInR(l[i][1])>>]
          \o SelectSeq(r, LAMBDA e : ~InL(e[1]))

RECURSIVE ColorsOf(_, _, _)
\* colors[key] = colors.get(key, 0) + 1 over pixels[lo..hi], skipping a < 128;
\* the run is counted in two halves, which gives the same dict
ColorsOf(pixels, lo, hi) ==
    IF lo > hi THEN << >>
    ELSE IF lo = hi
    THEN IF pixels[lo][4] < 128 THEN << >> ELSE << <<Quantize(pixels[lo]), 1>> >>
    ELSE LET mid == (lo + hi) \div 2
         IN  ColorsMerge(ColorsOf(pixels, lo, mid), ColorsOf(pixels, mid + 1, hi))

RECURSIVE SortByCount(_)
\* sorted(colors.items(), key=lambda x: -x[1]): descending by count, stable,
\* so equal counts stay in insertion order
SortByCount(items) ==
    IF items = << >> THEN << >>
    ELSE LET best == CHOOSE i \in 1..Len(items) :
                        /\ \A j \in 1..Len(items) : items[j][2] <= items[i][2]
                        /\ \A j \in 1..(i - 1) : items[j][2] < items[i][2]
             rest == [j \in 1..(Len(items) - 1) |->
                        IF j < best THEN items[j] ELSE items[j + 1]]
         IN  <<items[best]>> \o SortByCount(rest)

\* A builder that keeps one colour fewer than there is room for.
build_palette_one_short(frames, max_colors) ==
    LET pixels == FramePixels(frames)
        sorted_colors == SortByCount(ColorsOf(pixels, 1, Len(pixels)))
    IN  <<SENTINEL>> \o [i \in 1..Min(max_colors - 2, Len(sorted_colors)) |->
                           sorted_colors[i][1]]

\* build_palette_from_frames: the sentinel, then the max_colors - 1 most
\* frequent colours; the list is as long as that, it is not padded
build_palette_from_frames(frames, max_colors) ==
    LET pixels == FramePixels(frames)
        sorted_colors == SortByCount(ColorsOf(pixels, 1, Len(pixels)))
    IN  <<SENTINEL>> \o [i \in 1..Min(max_colors - 1, Len(sorted_colors)) |->
                           sorted_colors[i][1]]

\* process_palette_def's decoding of a colour in hardware format
neogeo_color_to_rgb5(c) ==
    <<BitOr(((c \div 256) % 16) * 2, (c \div 16384) % 2),
      BitOr(((c \div 16) % 16) * 2, (c \div 8192) % 2),
      BitOr((c % 16) * 2, (c \div 4096) % 2)>>

\* A palette definition whose first manual colour is decoded like the others.
process_palette_def_no_sentinel(pal_def) ==
    IF pal_def.kind = "colors"
    THEN LET colors == SubSeq(pal_def.colors, 1, Min(16, Len(pal_def.colors)))
         IN  [error |-> FALSE,
              palette |-> [i \in 1..16 |->
                             IF i > Len(colors) THEN <<0, 0, 0>>
                             ELSE neogeo_color_to_rgb5(colors[i])]]
    ELSE IF pal_def.kind = "source"
    THEN [error |-> FALSE,
          palette |-> build_palette_from_frames(<<pal_def.image>>, 16)]
    ELSE [error |-> TRUE, palette |-> << >>]

\* process_palette_def: manual colours (truncated to 16, slot 0 replaced by the
\* sentinel, decoded, padded to 16 with (0, 0, 0)), or a palette built from
\* the source image, or the domain error
process_palette_def(pal_def) ==
    IF pal_def.kind = "colors"
    THEN LET colors == SubSeq(pal_def.colors, 1, Min(16, Len(pal_def.colors)))
         IN  [error |-> FALSE,
              palette |-> [i \in 1..16 |->
                             IF i > Len(colors) THEN <<0, 0, 0>>
                             ELSE IF i = 1 THEN SENTINEL
                             ELSE neogeo_color_to_rgb5(colors[i])]]
    ELSE IF pal_def.kind = "source"
    THEN [error |-> FALSE,
          palette |-> build_palette_from_frames(<<pal_def.image>>, 16)]
    ELSE [error |-> TRUE, palette |-> << >>]

\* the key of the registry dict that holds the counter, not a palette
NEXT_INDEX_KEY == "_next_index"

\* `name in palette_registry`: the counter's key is in the dict as well
InRegistry(reg, name) == name = NEXT_INDEX_KEY \/ name \in DOMAIN reg

\* palette_registry[name] = entry
RegistrySet(reg, name, entry) ==
    [n \in (DOMAIN reg) \cup {name} |-> IF n = name THEN entry ELSE reg[n]]

\* A resolution that registers the auto-generated palette and advances the
\* counter whether or not the name is already registered.
ResolvePaletteAlwaysRegisters(asset_def, built, reg, next) ==
    LET name == asset_def.name
        ref == asset_def.palette
    IN  IF ref.kind = "none"
        THEN IF name = NEXT_INDEX_KEY
             THEN [outcome |-> "TypeError"]
             ELSE [outcome |-> "ok", palette |-> built, palette_name |-> name,
                   registry |-> RegistrySet(reg, name, [index |-> next, colors |-> built]),
                   next_index |-> next + 1,
                   palette_idx |-> next,
                   auto |-> TRUE]
        ELSE IF ref.kind = "str"
        THEN IF ~InRegistry(reg, ref.name)
             THEN [outcome |-> "NGResError"]
             ELSE IF ref.name = NEXT_INDEX_KEY
             THEN [outcome |-> "TypeError"]
             ELSE [outcome |-> "ok", palette |-> reg[ref.name].colors,
                   palette_name |-> ref.name, registry |-> reg, next_index |-> next,
                   palette_idx |-> reg[ref.name].index, auto |-> FALSE]
        ELSE IF ref.kind = "int"
        THEN [outcome |-> "ok", palette |-> built, palette_name |-> name,
              registry |-> IF InRegistry(reg, name) THEN reg
                           ELSE RegistrySet(reg, name, [index |-> ref.index, colors |-> built]),
              next_index |-> next, palette_idx |-> ref.index, auto |-> FALSE]
        ELSE [outcome |-> "NGResError"]

\* process_visual_asset, "Determine palette to use": the palette the pixels
\* are indexed with, palette_name and palette_idx of asset_info, and what the
\* registry and its counter become; built is what build_palette_from_frames
\* gives for the asset's frames.  Subscripting the counter (an int) as if it
\* were an entry raises TypeError, which nothing catches.
ResolvePalette(asset_def, built, reg, next) ==
    LET name == asset_def.name
        ref == asset_def.palette
    IN  IF ref.kind = "none"
        THEN IF name = NEXT_INDEX_KEY
             THEN [outcome |-> "TypeError"]
             ELSE [outcome |-> "ok", palette |-> built, palette_name |-> name,
                   registry |-> IF InRegistry(reg, name) THEN reg
                                ELSE RegistrySet(reg, name,
                                                 [index |-> next, colors |-> built]),
                   next_index |-> IF InRegistry(reg, name) THEN next ELSE next + 1,
                   palette_idx |-> IF InRegistry(reg, name) THEN reg[name].index ELSE next,
                   auto |-> ~InRegistry(reg, name)]
        ELSE IF ref.kind = "str"
        THEN IF ~InRegistry(reg, ref.name)
             THEN [outcome |-> "NGResError"]
             ELSE IF ref.name = NEXT_INDEX_KEY
             THEN [outcome |-> "TypeError"]
             ELSE [outcome |-> "ok", palette |-> reg[ref.name].colors,
                   palette_name |-> ref.name, registry |-> reg, next_index |-> next,
                   palette_idx |-> reg[ref.name].index, auto |-> FALSE]
        ELSE IF ref.kind = "int"
        THEN [outcome |-> "ok", palette |-> built, palette_name |-> name,
              registry |-> IF InRegistry(reg, name) THEN reg
                           ELSE RegistrySet(reg, name, [index |-> ref.index, colors |-> built]),
              next_index |-> next, palette_idx |-> ref.index, auto |-> FALSE]
        ELSE [outcome |-> "NGResError"]

\* ---------------------------------------------------- SpecPalette: main()
\* The palette loop over palettes_config, then the visual-asset loop, with the
\* configuration drawn entry by entry.

MaxPalettes == 2
MaxAssets == 2

\* a 16x16 RGBA image, row-major as getdata() gives it
\*   1: left half red, then five columns blue, then three transparent columns
\*   2: green and white in alternating columns (a tie broken by first seen),
\*      the last row nearly transparent black
ImagePixel(k, x, y) ==
    IF k = 1
    THEN IF x < 8 THEN <<255, 0, 0, 255>>
         ELSE IF x < 13 THEN <<0, 0, 255, 128>>
         ELSE <<9, 9, 9, 127>>
    ELSE IF y = 15 THEN <<0, 0, 0, 0>>
         ELSE IF x % 2 = 0 THEN <<0, 255, 7, 255>>
         ELSE <<255, 255, 255, 200>>

Image(k) == [i \in 1..256 |-> ImagePixel(k, (i - 1) % 16, (i - 1) \div 16)]

Images == {Image(1), Image(2)}

\* build_palette_from_frames(frames, max_colors=16) of each image as the one
\* frame of a static asset
BuiltPalette == [img \in Images |-> build_palette_from_frames(<<img>>, 16)]

PaletteNames == {"a", "b", NEXT_INDEX_KEY}

\* the entries of palettes_config: manual colours, a source image, neither
PaletteDefs ==
    {[kind |-> "colors", colors |-> <<32768, 32767, 20224>>, image |-> << >>],
     [kind |-> "colors", colors |-> << >>, image |-> << >>],
     [kind |-> "source", colors |-> << >>, image |-> Image(1)],
     [kind |-> "neither", colors |-> << >>, image |-> << >>]}

\* asset_def.get('name'): "" stands for a missing or empty name
AssetNames == {"a", "c", NEXT_INDEX_KEY, ""}

\* asset_def.get('palette'): omitted, a name, an index, or something else
PaletteRefs ==
    {[kind |-> "none", name |-> "", index |-> 0],
     [kind |-> "str", name |-> "a", index |-> 0],
     [kind |-> "str", name |-> "c", index |-> 0],
     [kind |-> "str", name |-> NEXT_INDEX_KEY, index |-> 0],
     [kind |-> "int", name |-> "", index |-> 2],
     [kind |-> "int", name |-> "", index |-> 7],
     [kind |-> "other", name |-> "", index |-> 0]}

AssetDefs == [name : AssetNames, palette : PaletteRefs, image : Images]

\* The registry as main() creates it: the counter at 2 and no palette.
PaletteInit ==
    /\ vpc = "palettes"
    /\ palettes_done = 0
    /\ palette_registry = [n \in {} |-> 0]
    /\ next_index = 2
    /\ visual_assets = << >>
    /\ assets_info = << >>
    /\ palette = << >>
    /\ auto_assigned = << >>

\* One iteration of the loop over palettes_config.items().  The keys of a dict
\* are distinct.  The key '_next_index' replaces the counter by the entry, and
\* the increment that follows raises TypeError.
ProcessPaletteDef(pal_name, pal_def) ==
    /\ vpc = "palettes"
    /\ palettes_done < MaxPalettes
    /\ pal_name \notin DOMAIN palette_registry
    /\ LET r == process_palette_def(pal_def)
       IN  IF r.error
           THEN /\ vpc' = "exit1"
                /\ UNCHANGED <<palettes_done, palette_registry, next_index, auto_assigned>>
           ELSE IF pal_name = NEXT_INDEX_KEY
           THEN /\ vpc' = "traceback"
                /\ UNCHANGED <<palettes_done, palette_registry, next_index, auto_assigned>>
           ELSE /\ palette_registry' =
                      RegistrySet(palette_registry, pal_name,
                                  [index |-> next_index, colors |-> r.palette])
                /\ next_index' = next_index + 1
                /\ auto_assigned' = Append(auto_assigned, pal_name)
                /\ palettes_done' = palettes_done + 1
                /\ UNCHANGED vpc
    /\ UNCHANGED <<visual_assets, assets_info, palette>>
    /\ UNCHANGED exceptPalette

\* The palette loop ends; the visual-asset loop starts.
PalettesEnd ==
    /\ vpc = "palettes"
    /\ vpc' = "visual"
    /\ UNCHANGED <<palettes_done, palette_registry, next_index, visual_assets,
                   assets_info, palette, auto_assigned>>
    /\ UNCHANGED exceptPalette

\* One iteration of the loop over visual_assets: process_visual_asset on a
\* static 16x16 image (one frame), then assets_info.append(info).
ProcessVisualAsset(asset_def) ==
    /\ vpc = "visual"
    /\ Len(visual_assets) < MaxAssets
    /\ visual_assets' = Append(visual_assets, asset_def)
    /\ IF asset_def.name = ""
       THEN /\ vpc' = "exit1"
            /\ UNCHANGED <<palette_registry, next_index, assets_info, palette,
                           auto_assigned>>
       ELSE LET r == ResolvePalette(asset_def, BuiltPalette[asset_def.image],
                                    palette_registry, next_index)
            IN  IF r.outcome # "ok"
                THEN /\ vpc' = IF r.outcome = "NGResError" THEN "exit1" ELSE "traceback"
                     /\ UNCHANGED <<palette_registry, next_index, assets_info, palette,
                                    auto_assigned>>
                ELSE /\ palette_registry' = r.registry
                     /\ next_index' = r.next_index
                     /\ palette' = r.palette
                     /\ assets_info' = Append(assets_info,
                                              [name |-> asset_def.name,
                                               palette_name |-> r.palette_name,
                                               palette_idx |-> r.palette_idx])
                     /\ auto_assigned' = IF r.auto
                                         THEN Append(auto_assigned, r.palette_name)
                                         ELSE auto_assigned
                     /\ UNCHANGED vpc
    /\ UNCHANGED palettes_done
    /\ UNCHANGED exceptPalette

\* The visual-asset loop ends.
VisualEnd ==
    /\ vpc = "visual"
    /\ vpc' = "done"
    /\ UNCHANGED <<palettes_done, palette_registry, next_index, visual_assets,
                   assets_info, palette, auto_assigned>>
    /\ UNCHANGED exceptPalette

PaletteNext ==
    \/ \E n \in PaletteNames, d \in PaletteDefs : ProcessPaletteDef(n, d)
    \/ PalettesEnd
    \/ \E d \in AssetDefs : ProcessVisualAsset(d)
    \/ VisualEnd

InitPalette ==
    /\ CodecIdle /\ EncodeIdle /\ PackIdle /\ AudioIdle /\ PaletteInit
    /\ TileIdle /\ FramesIdle /\ SromIdle /\ IndexIdle /\ ColorIdle /\ TmxIdle
    /\ TilemapIdle
    /\ MainIdle
    /\ ReuseIdle
    /\ AnimIdle

SpecPalette == InitPalette /\ [][PaletteNext]_vars

\* C7: the indices given from the counter are 2, 3, 4, ... in the order the
\* names were first registered (explicit palette definitions, then assets
\* without a palette reference), the counter is always the next of them, and
\* no step changes the index of a registered name or advances the counter
\* without registering a new name.
C7_AutoIndex ==
    /\ [](/\ next_index = 2 + Len(auto_assigned)
          /\ \A k \in 1..Len(auto_assigned) :
                /\ auto_assigned[k] \in DOMAIN palette_registry
                /\ palette_registry[auto_assigned[k]].index = 2 + (k - 1)
                /\ \A j \in 1..(k - 1) : auto_assigned[j] # auto_assigned[k])
    /\ [][/\ \A n \in DOMAIN palette_registry :
                /\ n \in DOMAIN palette_registry'
                /\ palette_registry'[n].index = palette_registry[n].index
          /\ (DOMAIN palette_registry' = DOMAIN palette_registry)
                => next_index' = next_index
          /\ next_index' \in {next_index, next_index + 1}]_vars

\* Two explicit palettes got 2 and 3, asset "c" without a reference got 4, and
\* asset "a" without a reference met the registered name "a".
C7_Witness ==
    /\ auto_assigned = <<"a", "b", "c">>
    /\ Len(assets_info) = 2
    /\ visual_assets[1].name = "c" /\ visual_assets[1].palette.kind = "none"
    /\ visual_assets[2].name = "a" /\ visual_assets[2].palette.kind = "none"
    /\ assets_info[2].palette_idx = 2
    /\ next_index = 5

\* C8: when the palette name an asset resolves to is already registered, the
\* palette index reported for the asset is the registered index and the
\* colours its pixels are indexed with are the registered colours.
C8_ExistingEntry ==
    [][(Len(assets_info') = Len(assets_info) + 1)
         => LET info == assets_info'[Len(assets_info')]
            IN  info.palette_name \in DOMAIN palette_registry
                  => /\ info.palette_idx = palette_registry[info.palette_name].index
                     /\ palette' = palette_registry[info.palette_name].colors]_vars

\* Restricted to a reference by name, the resolution does return the entry.
ExistingEntryByName ==
    [][(Len(assets_info') = Len(assets_info) + 1)
         => LET info == assets_info'[Len(assets_info')]
                asset_def == visual_assets'[Len(visual_assets')]
            IN  asset_def.palette.kind = "str"
                  => /\ info.palette_idx = palette_registry[info.palette_name].index
                     /\ palette' = palette_registry[info.palette_name].colors]_vars

\* ------------------------------------------------------ C-ROM tile encoding

\* tile_to_crom's blocks, (start_x, start_y): top-left, bottom-left,
\* top-right, bottom-right
blocks == <<<<0, 0>>, <<0, 8>>, <<8, 0>>, <<8, 8>>>>

\* the `pixels` list of one block row: pixels[col] = tile[y][block_x + 7 - col]
RowPixels(t, block_x, block_y, row) ==
    [col \in 1..8 |-> t[block_y + row + 1][block_x + (7 - (col - 1)) + 1]]

RECURSIVE Bitplane(_, _, _)
\* bp |= ((px >> k) & 1) << i over the first n pixels of the list
Bitplane(pixels, k, n) ==
    IF n = 0 THEN 0
    ELSE BitOr(Bitplane(pixels, k, n - 1), Bit(pixels[n], k) * Pow2(n - 1))

\* A buffer filled for the top-left block only, the other 48 bytes left 0.
CromBufferTopLeftOnly(t, ka, kb) ==
    [n \in 1..64 |->
        LET byte_idx == ((n - 1) \div 2) * 2
            pixels == RowPixels(t, 0, 0, (byte_idx \div 2) % 8)
        IN  IF byte_idx >= 16 THEN 0
            ELSE IF n - 1 = byte_idx THEN Bitplane(pixels, ka, 8)
            ELSE Bitplane(pixels, kb, 8)]

\* The buffer that takes bitplanes ka and kb: per block row the two bytes at
\* byte_idx and byte_idx + 1, byte_idx advancing by 2.
CromBuffer(t, ka, kb) ==
    [n \in 1..64 |->
        LET byte_idx == ((n - 1) \div 2) * 2
            block == blocks[(byte_idx \div 16) + 1]
            pixels == RowPixels(t, block[1], block[2], (byte_idx \div 2) % 8)
        IN  IF n - 1 = byte_idx THEN Bitplane(pixels, ka, 8)
            ELSE Bitplane(pixels, kb, 8)]

\* A layout with bitplanes 0 and 2 in the first buffer, 1 and 3 in the second.
tile_to_crom_planes_02_13(t) == <<CromBuffer(t, 0, 2), CromBuffer(t, 1, 3)>>

\* tile_to_crom: (c1_data, c2_data); c1 takes bp0 and bp1, c2 takes bp2 and bp3
tile_to_crom(t) == <<CromBuffer(t, 0, 1), CromBuffer(t, 2, 3)>>

\* data.ljust(max_len, b'\x00')
LJust(data, max_len) ==
    [i \in 1..Max(max_len, Len(data)) |-> IF i <= Len(data) THEN data[i] ELSE 0]

\* interleave_c_roms: C1[0], C2[0], C1[1], C2[1], ...
interleave_c_roms(c1, c2) ==
    LET max_len == Max(Len(c1), Len(c2))
        p1 == LJust(c1, max_len)
        p2 == LJust(c2, max_len)
    IN  [n \in 1..(max_len * 2) |->
            IF (n - 1) % 2 = 0 THEN p1[((n - 1) \div 2) + 1]
            ELSE p2[((n - 1) \div 2) + 1]]

\* ------------------------------------------------------------- SpecTile
\* One tile through tile_to_crom and then through interleave_c_roms, as the
\* C-ROM pair written by ngres.py goes into the .neo file.

MaxCoef == 2

\* Tiles of palette indices 0..15: gradients (a * x + b * y + c) mod 16, and
\* tiles that are 0 but for one pixel at a corner of a quadrant.
GradientTile(a, b, c) ==
    [y \in 1..16 |-> [x \in 1..16 |-> (a * (x - 1) + b * (y - 1) + c) % 16]]

SinglePixelTile(x0, y0, v) ==
    [y \in 1..16 |-> [x \in 1..16 |-> IF x - 1 = x0 /\ y - 1 = y0 THEN v ELSE 0]]

\* every pixel the palette index v
UniformTile(v) == GradientTile(0, 0, v)

Tiles ==
    {GradientTile(a, b, c) : a \in 0..MaxCoef, b \in 0..MaxCoef, c \in {0, 5, 15}}
      \cup {UniformTile(v) : v \in 0..15}
      \cup {SinglePixelTile(x0, y0, v) :
              x0 \in {0, 7, 8, 15}, y0 \in {0, 7, 8, 15}, v \in {1, 2, 4, 8}}

TileInit ==
    /\ tpc = "tile"
    /\ tile \in Tiles
    /\ c1_data = << >>
    /\ c2_data = << >>
    /\ c_data = << >>

\* c1, c2 = tile_to_crom(tile)
TileToCrom ==
    /\ tpc = "tile"
    /\ c1_data' = tile_to_crom(tile)[1]
    /\ c2_data' = tile_to_crom(tile)[2]
    /\ tpc' = "crom"
    /\ UNCHANGED <<tile, c_data>>
    /\ UNCHANGED exceptTile

\* c_data = interleave_c_roms(c1_data, c2_data)
InterleaveCRoms ==
    /\ tpc = "crom"
    /\ c_data' = interleave_c_roms(c1_data, c2_data)
    /\ tpc' = "neo"
    /\ UNCHANGED <<tile, c1_data, c2_data>>
    /\ UNCHANGED exceptTile

\* another tile, another run
NextTile(t) ==
    /\ tpc = "neo"
    /\ tile' = t
    /\ c1_data' = << >>
    /\ c2_data' = << >>
    /\ c_data' = << >>
    /\ tpc' = "tile"
    /\ UNCHANGED exceptTile

TileNext ==
    \/ TileToCrom
    \/ InterleaveCRoms
    \/ \E t \in Tiles : NextTile(t)

InitTile ==
    /\ CodecIdle /\ EncodeIdle /\ PackIdle /\ AudioIdle /\ PaletteIdle
    /\ TileInit /\ FramesIdle /\ SromIdle /\ IndexIdle /\ ColorIdle /\ TmxIdle
    /\ TilemapIdle
    /\ MainIdle
    /\ ReuseIdle
    /\ AnimIdle

SpecTile == InitTile /\ [][TileNext]_vars

\* the pixel of the tile at column c, row r of quadrant q, the quadrants taken
\* as top-left, bottom-left, top-right, bottom-right
QuadrantPixel(q, r, c) ==
    tile[(IF q % 2 = 1 THEN 8 ELSE 0) + r + 1][(IF q >= 2 THEN 8 ELSE 0) + c + 1]

\* bit (7 - c) of the byte is bitplane k of the pixels of row r of quadrant q
IsBitplaneByte(byte, k, q, r) ==
    /\ byte \in 0..255
    /\ \A c \in 0..7 : Bit(byte, 7 - c) = Bit(QuadrantPixel(q, r, c), k)

C10_InterleavedOrder ==
    (tpc = "neo") =>
        \A q \in 0..3, r \in 0..7, k \in 0..3 :
            IsBitplaneByte(c_data[4 * (8 * q + r) + k + 1], k, q, r)

\* What the interleave does give: bp0, bp2, bp1, bp3.
InterleavedOrderActual ==
    (tpc = "neo") =>
        /\ Len(c_data) = 128
        /\ \A q \in 0..3, r \in 0..7 :
              /\ IsBitplaneByte(c_data[4 * (8 * q + r) + 1], 0, q, r)
              /\ IsBitplaneByte(c_data[4 * (8 * q + r) + 2], 2, q, r)
              /\ IsBitplaneByte(c_data[4 * (8 * q + r) + 3], 1, q, r)
              /\ IsBitplaneByte(c_data[4 * (8 * q + r) + 4], 3, q, r)

\* --------------------------------------------------------- gen_solid_tile.py

TILE_INDEX == 256
TILE_SIZE == 64
TILE_OFFSET == TILE_INDEX * TILE_SIZE
SOLID_FILE_SIZE == 65536

\* gen_solid_tile.main: (c1_data, c2_data) as written to the two files; zeros
\* but for the 0xFF at the even offsets of tile 256 in the first file
gen_solid_tile ==
    <<[n \in 1..SOLID_FILE_SIZE |->
          IF /\ n - 1 >= TILE_OFFSET
             /\ n - 1 < TILE_OFFSET + TILE_SIZE
             /\ (n - 1 - TILE_OFFSET) % 2 = 0
          THEN 255 ELSE 0],
      [n \in 1..SOLID_FILE_SIZE |-> 0]>>

\* the 64 bytes of tile 256 in file k of gen_solid_tile
SolidTileBytes(k) == SubSeq(gen_solid_tile[k], TILE_OFFSET + 1, TILE_OFFSET + TILE_SIZE)

\* 0xFF if bit k of v is set, else 0x00
PlaneByte(v, k) == IF Bit(v, k) = 1 THEN 255 ELSE 0

MaxTilesDim == 3
MaxFrames == 3

HFLIP == 32768

tiles_per_frame == tiles_x * tiles_y

\* idx = y * frame_width + x with x = tx * 16 + px, y = ty * 16 + py
PixelIdx(tx_, ty_, px, py) == (ty_ * 16 + py) * (tiles_x * 16) + (tx_ * 16 + px)

\* An offset that numbers the tiles of a frame row by row.
TileOffsetRowMajor(tx_, ty_) == ty_ * tiles_x + tx_

\* tile_offset = tx * tiles_y + ty
TileOffset(tx_, ty_) == tx_ * tiles_y + ty_

FramesInit ==
    /\ fpc = "tiles"
    /\ tiles_x \in 1..MaxTilesDim
    /\ tiles_y \in 1..MaxTilesDim
    /\ frame_count \in 1..MaxFrames
    /\ frame_idx = 0
    /\ tx = 0
    /\ ty = 0
    /\ crom_tiles = << >>
    /\ tilemap = << >>

\* One pass of the inner tile loop: the tile at (tx, ty) is cut out of the
\* indexed frame, converted and appended to both planes.
AppendTile ==
    /\ fpc = "tiles"
    /\ crom_tiles' = Append(crom_tiles,
                            [frame |-> frame_idx,
                             first |-> PixelIdx(tx, ty, 0, 0),
                             last |-> PixelIdx(tx, ty, 15, 15)])
    /\ IF ty + 1 < tiles_y
       THEN /\ ty' = ty + 1
            /\ UNCHANGED <<tx, fpc>>
       ELSE /\ ty' = 0
            /\ tx' = tx + 1
            /\ fpc' = IF tx + 1 < tiles_x THEN "tiles" ELSE "tilemap"
    /\ UNCHANGED <<tiles_x, tiles_y, frame_count, frame_idx, tilemap>>
    /\ UNCHANGED exceptFrames

\* The tilemap entries of the frame, row by row, then on to the next frame.
FrameTilemap ==
    /\ fpc = "tilemap"
    /\ LET frame_base == frame_idx * tiles_per_frame
       IN  tilemap' = tilemap \o
               [n \in 1..tiles_per_frame |->
                   BitOr(frame_base + TileOffset((n - 1) % tiles_x, (n - 1) \div tiles_x),
                         HFLIP)]
    /\ frame_idx' = frame_idx + 1
    /\ tx' = 0
    /\ ty' = 0
    /\ fpc' = IF frame_idx + 1 < frame_count THEN "tiles" ELSE "done"
    /\ UNCHANGED <<tiles_x, tiles_y, frame_count, crom_tiles>>
    /\ UNCHANGED exceptFrames

FramesNext ==
    \/ AppendTile
    \/ FrameTilemap

InitFrames ==
    /\ CodecIdle /\ EncodeIdle /\ PackIdle /\ AudioIdle /\ PaletteIdle
    /\ TileIdle /\ FramesInit /\ SromIdle /\ IndexIdle /\ ColorIdle /\ TmxIdle
    /\ TilemapIdle
    /\ MainIdle
    /\ ReuseIdle
    /\ AnimIdle

SpecFrames == InitFrames /\ [][FramesNext]_vars

\* C12: the tile covering tile column tx and tile row ty of frame f is tile
\* number f * tiles_per_frame + tx * tiles_y + ty of the planes; the tilemap
\* entry at f * tiles_per_frame + ty * tiles_x + tx is that number with bit
\* 0x8000 set; the entries of a frame name each tile of the frame once; and
\* at the end there are frame_count * tiles_per_frame tiles and entries.
C12_TileOrder ==
    /\ \A f \in 0..(frame_count - 1), cx \in 0..(tiles_x - 1), cy \in 0..(tiles_y - 1) :
          LET number == f * tiles_per_frame + cx * tiles_y + cy
          IN  /\ number < Len(crom_tiles) =>
                    /\ crom_tiles[number + 1].frame = f
                    /\ crom_tiles[number + 1].first = (cy * 16) * (tiles_x * 16) + cx * 16
                    /\ crom_tiles[number + 1].last =
                           (cy * 16 + 15) * (tiles_x * 16) + cx * 16 + 15
              /\ f < Len(tilemap) \div tiles_per_frame =>
                    /\ tilemap[f * tiles_per_frame + cy * tiles_x + cx + 1] = number + 32768
                    /\ Cardinality({tilemap[f * tiles_per_frame + n] : n \in 1..tiles_per_frame})
                          = tiles_per_frame
                    /\ \A n \in 1..tiles_per_frame :
                          tilemap[f * tiles_per_frame + n] - 32768
                              \in (f * tiles_per_frame)..((f + 1) * tiles_per_frame - 1)
    /\ Len(tilemap) % tiles_per_frame = 0
    /\ fpc = "done" => /\ Len(crom_tiles) = frame_count * tiles_per_frame
                       /\ Len(tilemap) = frame_count * tiles_per_frame

\* Two frames of 2 x 3 tiles are done: the entry of row 0, column 1 is tile 3,
\* that of row 1, column 0 of the second frame is tile 7.
C12_Witness ==
    /\ fpc = "done"
    /\ tiles_x = 2 /\ tiles_y = 3 /\ frame_count = 2
    /\ Len(crom_tiles) = 12
    /\ tilemap[2] = 32768 + 3
    /\ tilemap[6 + 3] = 32768 + 7

\* --------------------------------------------------------------- S-ROM tiles

\* x & 0xF
Low4(x) == x % 16

\* column pairs in storage order
col_pairs == <<<<4, 5>>, <<6, 7>>, <<0, 1>>, <<2, 3>>>>

\* A packer that stores the column pairs from left to right.
pixels_to_srom_tile_left_to_right(pixels) ==
    [n \in 1..32 |->
        LET pair_idx == (n - 1) \div 8
            row == (n - 1) % 8
        IN  BitOr(Low4(pixels[row + 1][2 * pair_idx + 1]),
                  Low4(pixels[row + 1][2 * pair_idx + 2]) * 16)]

\* pixels_to_srom_tile: tile[pair_idx * 8 + row] = left_pixel | (right_pixel << 4)
pixels_to_srom_tile(pixels) ==
    [n \in 1..32 |->
        LET pair_idx == (n - 1) \div 8
            row == (n - 1) % 8
            left_pixel == Low4(pixels[row + 1][col_pairs[pair_idx + 1][1] + 1])
            right_pixel == Low4(pixels[row + 1][col_pairs[pair_idx + 1][2] + 1])
        IN  BitOr(left_pixel, right_pixel * 16)]

\* ---------------------------------------------------------------- SpecSrom

MaxSromCoef == 2

\* 8x8 grids: gradients (a * col + b * row + c) mod 16, and grids that are 0
\* but for one pixel; 31 is a value wider than four bits
Grids ==
    {[row \in 1..8 |-> [col \in 1..8 |-> (a * (col - 1) + b * (row - 1) + c) % 16]] :
        a \in 0..MaxSromCoef, b \in 0..MaxSromCoef, c \in {0, 5, 15}}
      \cup {[row \in 1..8 |-> [col \in 1..8 |->
                IF col - 1 = x0 /\ row - 1 = y0 THEN v ELSE 0]] :
              x0 \in {0, 3, 4, 7}, y0 \in {0, 3, 4, 7}, v \in {1, 8, 15, 31}}

SromInit ==
    /\ srpc = "pixels"
    /\ pixels_8x8 \in Grids
    /\ srom_tile = << >>

\* tile = pixels_to_srom_tile(pixels_8x8)
PixelsToSromTile ==
    /\ srpc = "pixels"
    /\ srom_tile' = pixels_to_srom_tile(pixels_8x8)
    /\ srpc' = "tile"
    /\ UNCHANGED pixels_8x8
    /\ UNCHANGED exceptSrom

\* another grid, another call
NextGrid(g) ==
    /\ srpc = "tile"
    /\ pixels_8x8' = g
    /\ srom_tile' = << >>
    /\ srpc' = "pixels"
    /\ UNCHANGED exceptSrom

SromNext ==
    \/ PixelsToSromTile
    \/ \E g \in Grids : NextGrid(g)

InitSrom ==
    /\ CodecIdle /\ EncodeIdle /\ PackIdle /\ AudioIdle /\ PaletteIdle
    /\ TileIdle /\ FramesIdle /\ SromInit /\ IndexIdle /\ ColorIdle /\ TmxIdle
    /\ TilemapIdle
    /\ MainIdle
    /\ ReuseIdle
    /\ AnimIdle

SpecSrom == InitSrom /\ [][SromNext]_vars

\* the grid of 4-bit indices read back from 32 bytes: the pair of a column is
\* found by its number, the left column in the low nibble
SromDecode(bytes) ==
    [row \in 1..8 |-> [col \in 1..8 |->
        LET c == col - 1
            p == IF c \in {4, 5} THEN 0 ELSE IF c \in {6, 7} THEN 1
                 ELSE IF c \in {0, 1} THEN 2 ELSE 3
            byte == bytes[8 * p + (row - 1) + 1]
        IN  IF c % 2 = 0 THEN byte % 16 ELSE byte \div 16]]

\* C13: pixels_to_srom_tile returns 32 bytes; for column pair p in the order
\* (4,5), (6,7), (0,1), (2,3) and row r, byte 8p + r has the 4-bit index of
\* the left column in its low nibble and that of the right column in its high
\* nibble; the grid of 4-bit indices is recovered from the bytes.
C13_SromTile ==
    (srpc = "tile" /\ srom_tile # << >>) =>
        /\ Len(srom_tile) = 32
        /\ \A p \in 0..3, r \in 0..7 :
              LET left == <<4, 6, 0, 2>>[p + 1]
                  byte == srom_tile[8 * p + r + 1]
              IN  /\ byte \in 0..255
                  /\ byte % 16 = pixels_8x8[r + 1][left + 1] % 16
                  /\ byte \div 16 = pixels_8x8[r + 1][left + 2] % 16
        /\ SromDecode(srom_tile) =
              [row \in 1..8 |-> [col \in 1..8 |-> pixels_8x8[row][col] % 16]]

\* The grid with pixel (col, row) = col + 2 * row has been packed: byte 0 is
\* columns 4 and 5 of row 0 (0x54), byte 16 is columns 0 and 1 (0x10).
C13_Witness ==
    /\ srpc = "tile"
    /\ pixels_8x8 = [row \in 1..8 |-> [col \in 1..8 |-> ((col - 1) + 2 * (row - 1)) % 16]]
    /\ srom_tile[1] = 84
    /\ srom_tile[17] = 16

\* ------------------------------------------------------------ colour format

\* A packing with the low bits of red and blue in each other's place.
rgb5_to_neogeo_color_lsb_swapped(r, g, b) ==
    LET r_lsb == r % 2
        g_lsb == g % 2
        b_lsb == b % 2
        r_upper == (r \div 2) % 16
        g_upper == (g \div 2) % 16
        b_upper == (b \div 2) % 16
    IN  BitOr(BitOr(BitOr(b_lsb * 16384, g_lsb * 8192), r_lsb * 4096),
              BitOr(BitOr(r_upper * 256, g_upper * 16), b_upper))

\* rgb5_to_neogeo_color: the low bit of each channel in bits 14, 13, 12, the
\* upper four bits in bits 11..8, 7..4, 3..0
rgb5_to_neogeo_color(r, g, b) ==
    LET r_lsb == r % 2
        g_lsb == g % 2
        b_lsb == b % 2
        r_upper == (r \div 2) % 16
        g_upper == (g \div 2) % 16
        b_upper == (b \div 2) % 16
    IN  BitOr(BitOr(BitOr(r_lsb * 16384, g_lsb * 8192), b_lsb * 4096),
              BitOr(BitOr(r_upper * 256, g_upper * 16), b_upper))

\* ------------------------------------------------- index_frame_with_palette

\* palette_lookup = {color: idx for idx, color in enumerate(palette)}, then
\* .get(key): of the slots that hold the colour the last one, slots from 0
PaletteLookup(pal, key) ==
    LET slots == {i \in 1..Len(pal) : pal[i] = key}
    IN  IF slots = {} THEN None
        ELSE (CHOOSE i \in slots : \A j \in slots : j <= i) - 1

\* (r5-pr)**2 + (g5-pg)**2 + (b5-pb)**2
Dist(key, color) ==
    (key[1] - color[1]) * (key[1] - color[1])
      + (key[2] - color[2]) * (key[2] - color[2])
      + (key[3] - color[3]) * (key[3] - color[3])

RECURSIVE Nearest(_, _, _)
\* the fallback loop over palette[1:] after slots 1..i: idx starts at 1 and
\* min_dist at infinity (-1 here), and only a smaller distance moves idx
Nearest(pal, key, i) ==
    IF i = 0 THEN [idx |-> 1, min_dist |-> -1]
    ELSE LET before == Nearest(pal, key, i - 1)
             dist == Dist(key, pal[i + 1])
         IN  IF before.min_dist = -1 \/ dist < before.min_dist
             THEN [idx |-> i, min_dist |-> dist]
             ELSE before

\* An indexing that looks the colour up whatever the alpha is.
IndexOfPixelIgnoringAlpha(px, pal) ==
    LET idx == PaletteLookup(pal, Quantize(px))
    IN  IF idx = None THEN Nearest(pal, Quantize(px), Len(pal) - 1).idx ELSE idx

\* the body of the pixel loop: what is appended to `indexed` for one pixel
IndexOfPixel(px, pal) ==
    IF px[4] < 128 THEN 0
    ELSE LET key == Quantize(px)
             idx == PaletteLookup(pal, key)
         IN  IF idx = None THEN Nearest(pal, key, Len(pal) - 1).idx ELSE idx

\* --------------------------------------------------------------- SpecIndex
\* One call of index_frame_with_palette, pixel by pixel.

\* 16x16 frames beside images 1 and 2:
\*   3: sixteen colours, one per column; the lower half below the threshold
\*   4: one opaque colour
\*   5: fifteen colours in columns 0..14, column 15 transparent white
\*   6: nothing opaque
IndexImagePixel(k, x, y) ==
    IF k = 3 THEN <<x * 8, 0, 0, IF y < 8 THEN 255 ELSE 127>>
    ELSE IF k = 4 THEN <<200, 100, 50, 255>>
    ELSE IF k = 5 THEN IF x < 15 THEN <<0, x * 8 + 7, 255, 128>>
                       ELSE <<255, 255, 255, 0>>
    ELSE <<255, 0, 0, 100>>

IndexImage(k) == [i \in 1..256 |-> IndexImagePixel(k, (i - 1) % 16, (i - 1) \div 16)]

IndexImages == Images \cup {IndexImage(k) : k \in 3..6}

\* The palettes a call can be given: the one built from the frame itself, or
\* the colours of a registry entry, which come from another image or from
\* manual colours.
IndexPalettes ==
    {build_palette_from_frames(<<img>>, 16) : img \in IndexImages}
      \cup {process_palette_def(d).palette :
              d \in {[kind |-> "colors", colors |-> <<32768, 0, 256>>, image |-> << >>],
                     [kind |-> "colors", colors |-> <<32768, 32767, 20224>>, image |-> << >>],
                     [kind |-> "colors", colors |-> << >>, image |-> << >>],
                     [kind |-> "colors", colors |-> <<20224, 0>>, image |-> << >>]}}

IndexInit ==
    /\ ipc = "index"
    /\ iframe \in IndexImages
    /\ ipalette \in IndexPalettes
    /\ indexed = << >>

\* one pass of `for r, g, b, a in pixels`
IndexPixel ==
    /\ ipc = "index"
    /\ Len(indexed) < Len(iframe)
    /\ indexed' = Append(indexed, IndexOfPixel(iframe[Len(indexed) + 1], ipalette))
    /\ UNCHANGED <<ipc, iframe, ipalette>>
    /\ UNCHANGED exceptIndex

\* return indexed
IndexReturn ==
    /\ ipc = "index"
    /\ Len(indexed) = Len(iframe)
    /\ ipc' = "done"
    /\ UNCHANGED <<iframe, ipalette, indexed>>
    /\ UNCHANGED exceptIndex

IndexNext ==
    \/ IndexPixel
    \/ IndexReturn

InitIndex ==
    /\ CodecIdle /\ EncodeIdle /\ PackIdle /\ AudioIdle /\ PaletteIdle
    /\ TileIdle /\ FramesIdle /\ SromIdle /\ IndexInit /\ ColorIdle /\ TmxIdle
    /\ TilemapIdle
    /\ MainIdle
    /\ ReuseIdle
    /\ AnimIdle

SpecIndex == InitIndex /\ [][IndexNext]_vars

\* C14: a pixel with alpha below 128 is indexed 0, whatever its colour and
\* whatever the palette holds.
C14_TransparentIsZero ==
    \A i \in 1..Len(indexed) : iframe[i][4] < 128 => indexed[i] = 0

\* A pixel below the threshold whose colour is in slot 1 of the palette has
\* been indexed 0, after opaque pixels of the same colour were indexed 1.
C14_Witness ==
    /\ ipc = "done"
    /\ iframe = IndexImage(3)
    /\ ipalette = build_palette_from_frames(<<IndexImage(3)>>, 16)
    /\ ipalette[2] = Quantize(iframe[129])
    /\ iframe[129][4] = 127
    /\ indexed[1] = 1
    /\ indexed[129] = 0

\* the distinct quantized colours of the opaque pixels of the frame
OpaqueColours(frame) ==
    {Quantize(frame[i]) : i \in {j \in 1..Len(frame) : frame[j][4] >= 128}}

\* C15: when the frame has k <= 15 distinct quantized opaque colours and is
\* indexed with the palette built from it, the palette is the sentinel and
\* those k colours, every opaque pixel is indexed to a slot in 1..k that holds
\* its quantized colour, slot 0 is never given to an opaque pixel, and with
\* one colour every opaque pixel is indexed 1.
C15_Lossless ==
    LET k == Cardinality(OpaqueColours(iframe))
    IN  (k <= 15 /\ ipalette = build_palette_from_frames(<<iframe>>, 16)) =>
            /\ Len(ipalette) = k + 1
            /\ ipalette[1] = SENTINEL
            /\ \A i \in 1..Len(indexed) :
                  iframe[i][4] >= 128 =>
                      /\ indexed[i] \in 1..k
                      /\ ipalette[indexed[i] + 1] = Quantize(iframe[i])
                      /\ (k = 1 => indexed[i] = 1)

\* The frame of fifteen colours has been indexed with its own palette, the
\* last colour in slot 15; and so has the frame of one colour.
C15_Witness ==
    /\ ipc = "done"
    /\ ipalette = build_palette_from_frames(<<iframe>>, 16)
    /\ \/ /\ iframe = IndexImage(5)
          /\ indexed[15] = 15
          /\ indexed[16] = 0
       \/ /\ iframe = IndexImage(4)
          /\ \A i \in 1..256 : indexed[i] = 1

\* C16: an opaque pixel whose quantized colour is in the palette is indexed
\* to a slot that holds it; one whose colour is not in the palette is indexed
\* to a slot among 1..len(palette)-1 at minimal squared distance, the lowest
\* of the equally near slots.
C16_NearestColour ==
    \A i \in 1..Len(indexed) :
        iframe[i][4] >= 128 =>
            LET key == Quantize(iframe[i])
                slot == indexed[i]
            IN  IF \E j \in 1..Len(ipalette) : ipalette[j] = key
                THEN /\ slot \in 0..(Len(ipalette) - 1)
                     /\ ipalette[slot + 1] = key
                ELSE /\ slot \in 1..(Len(ipalette) - 1)
                     /\ \A j \in 1..(Len(ipalette) - 1) :
                           /\ Dist(key, ipalette[slot + 1]) <= Dist(key, ipalette[j + 1])
                           /\ j < slot =>
                                Dist(key, ipalette[slot + 1]) < Dist(key, ipalette[j + 1])

\* The same for a palette that has a slot beside slot 0.
NearestColourTwoSlots ==
    Len(ipalette) >= 2 => C16_NearestColour

\* C26: every index returned is in 0..15, and 0 is returned only for a pixel
\* with alpha below 128: an opaque pixel, opaque black included, never gets
\* the transparent index 0, with any palette that build_palette_from_frames or
\* process_palette_def produces.
C26_OpaqueNeverZero ==
    \A i \in 1..Len(indexed) :
        /\ indexed[i] \in 0..15
        /\ (indexed[i] = 0) => (iframe[i][4] < 128)
        /\ (iframe[i][4] >= 128) => indexed[i] \in 1..15

\* Opaque black has been indexed with a manual palette that holds black: one
\* with the sentinel in slot 0 and black after it, or the palette of an empty
\* colour list, sixteen times black.
C26_Witness ==
    /\ ipc = "done"
    /\ Len(ipalette) = 16
    /\ iframe = IndexImage(3)
    /\ iframe[1] = <<0, 0, 0, 255>>
    /\ indexed[1] # 0
    /\ ipalette[indexed[1] + 1] = <<0, 0, 0>>
    /\ \/ ipalette[1] = SENTINEL /\ ipalette[2] = <<0, 0, 0>>
       \/ ipalette[1] = <<0, 0, 0>>

\* Slot 0 of a palette is the sentinel, which no quantized colour equals,
\* unless the palette comes from an empty list of manual colours: that one is
\* sixteen times (0, 0, 0), and the lookup gives black its last slot.
SentinelSlot ==
    \/ ipalette[1] = SENTINEL
    \/ ipalette = [n \in 1..16 |-> <<0, 0, 0>>]

\* --------------------------------------------------------------- SpecColor
\* A colour in hardware format decoded as process_palette_def decodes a manual
\* colour and encoded again as generate_header encodes it; and a colour given
\* as (r, g, b) encoded and decoded again.

\* every 16-bit value, bit 15 set or clear
HwColors == 0..65535

Rgb5Colors == {<<r, g, b>> : r \in 0..31, g \in 0..31, b \in 0..31}

ColorInit ==
    \/ /\ cpc = "hw"
       /\ hw_color \in HwColors
       /\ rgb5 = << >>
       /\ hw_again = None
       /\ rgb5_again = << >>
    \/ /\ cpc = "rgb"
       /\ hw_color = None
       /\ rgb5 \in Rgb5Colors
       /\ hw_again = None
       /\ rgb5_again = << >>

\* palette.append((r, g, b)) of a manual colour
DecodeManual ==
    /\ cpc = "hw"
    /\ rgb5' = neogeo_color_to_rgb5(hw_color)
    /\ cpc' = "rgb"
    /\ UNCHANGED <<hw_color, hw_again, rgb5_again>>
    /\ UNCHANGED exceptColor

\* color = rgb5_to_neogeo_color(r, g, b)
EncodeColor ==
    /\ cpc = "rgb"
    /\ hw_again' = rgb5_to_neogeo_color(rgb5[1], rgb5[2], rgb5[3])
    /\ cpc' = "encoded"
    /\ UNCHANGED <<hw_color, rgb5, rgb5_again>>
    /\ UNCHANGED exceptColor

\* the encoded colour read as a manual colour
DecodeAgain ==
    /\ cpc = "encoded"
    /\ rgb5_again' = neogeo_color_to_rgb5(hw_again)
    /\ cpc' = "decoded"
    /\ UNCHANGED <<hw_color, rgb5, hw_again>>
    /\ UNCHANGED exceptColor

ColorNext ==
    \/ DecodeManual
    \/ EncodeColor
    \/ DecodeAgain

InitColor ==
    /\ CodecIdle /\ EncodeIdle /\ PackIdle /\ AudioIdle /\ PaletteIdle
    /\ TileIdle /\ FramesIdle /\ SromIdle /\ IndexIdle /\ ColorInit /\ TmxIdle
    /\ TilemapIdle
    /\ MainIdle
    /\ ReuseIdle
    /\ AnimIdle

SpecColor == InitColor /\ [][ColorNext]_vars

\* C18: a colour (r, g, b) of 5-bit channels, encoded and decoded, is the
\* same colour; a hardware colour with bit 15 clear, decoded and encoded, is
\* the same value; so decoding and encoding a manual colour twice gives what
\* doing it once gives.
C18_ColourInverse ==
    /\ (rgb5 # << >>) => rgb5 \in Rgb5Colors
    /\ (cpc = "decoded") => rgb5_again = rgb5
    /\ (hw_again # None /\ hw_color # None /\ hw_color < 32768) => hw_again = hw_color
    /\ (hw_again # None /\ hw_color # None) => hw_again = hw_color % 32768
    /\ (hw_again # None) => hw_again \in 0..32767

\* 0x5F3A, with the low bits of red and blue set, went through decoding and
\* encoding; and (31, 0, 17) went through encoding and decoding.
C18_Witness ==
    \/ /\ cpc = "decoded"
       /\ hw_color = 24378
       /\ rgb5 = <<31, 6, 21>>
       /\ hw_again = 24378
    \/ /\ cpc = "decoded"
       /\ hw_color = None
       /\ rgb5 = <<31, 0, 17>>
       /\ hw_again = 24328
       /\ rgb5_again = <<31, 0, 17>>

\* -------------------------------------------------- palette sizes (SpecPalette)

\* generate_header, "Palette Data": the 16 values of NGPal_<name>; slot 0 is
\* 0x8000, the slots the list does not have are 0x0000
EmitPalette(colors) ==
    [n \in 1..16 |->
        IF n - 1 < Len(colors)
        THEN IF n - 1 = 0 THEN 32768
             ELSE rgb5_to_neogeo_color(colors[n][1], colors[n][2], colors[n][3])
        ELSE 0]

\* C17: every palette in the registry, and every palette an asset's pixels
\* are indexed with, has exactly 16 slots.
C17_SixteenSlots ==
    /\ \A n \in DOMAIN palette_registry : Len(palette_registry[n].colors) = 16
    /\ (assets_info # << >>) => Len(palette) = 16

\* What does hold: a palette has at least the slot 0 and at most 16 slots, a
\* palette of manual colours has 16, and the header writes 16 values, the
\* ones past the end of the list as 0.
PaletteSizes ==
    /\ \A n \in DOMAIN palette_registry :
          LET colors == palette_registry[n].colors
          IN  /\ Len(colors) \in 1..16
              /\ Len(EmitPalette(colors)) = 16
              /\ \A i \in (Len(colors) + 1)..16 : EmitPalette(colors)[i] = 0
    /\ (assets_info # << >>) => Len(palette) \in 1..16
    /\ \A d \in PaletteDefs :
          d.kind = "colors" => Len(process_palette_def(d).palette) = 16

\* ------------------------------------------------------------ parse_tmx_file
\* A TMX document is taken as parsed XML:
\*   [tilewidth, tileheight, map_width, map_height,
\*    tilesets : sequence of [firstgid, tiles : sequence of [id, props]],
\*    layers   : sequence of [name, width, height, has_data, encoding,
\*                            has_text, text]]
\* props is a sequence of <<name, value>>; an attribute that is absent is None;
\* text is the sequence of the integers of the CSV text, and has_text is FALSE
\* for a data element without text (its .text is None).

\* str.lower() on the property names and values that occur
Lower(str) ==
    IF str = "Solid" THEN "solid"
    ELSE IF str = "True" THEN "true"
    ELSE IF str = "YES" THEN "yes"
    ELSE str

\* the bit of a recognised property name, 0 for any other name
FlagOfName(prop_name) ==
    IF prop_name = "solid" THEN 1
    ELSE IF prop_name = "platform" THEN 2
    ELSE IF prop_name = "slope_l" THEN 4
    ELSE IF prop_name = "slope_r" THEN 8
    ELSE IF prop_name = "hazard" THEN 16
    ELSE IF prop_name = "trigger" THEN 32
    ELSE IF prop_name = "ladder" THEN 64
    ELSE 0

RECURSIVE TileFlags(_, _)
\* flags after the first n property elements of a tile
TileFlags(props, n) ==
    IF n = 0 THEN 0
    ELSE LET prop_name == Lower(props[n][1])
             prop_value == Lower(props[n][2])
         IN  IF prop_value \in {"true", "1", "yes"}
             THEN BitOr(TileFlags(props, n - 1), FlagOfName(prop_name))
             ELSE TileFlags(props, n - 1)

RECURSIVE AllTiles(_)
\* the tile elements of every tileset, in document order
AllTiles(tilesets) ==
    IF tilesets = << >> THEN << >>
    ELSE Head(tilesets).tiles \o AllTiles(Tail(tilesets))

\* collision_map: tile id -> flags; a later tile element with flags replaces
\* an earlier one of the same id, a tile without flags is not entered
CollisionMap(tilesets) ==
    LET tiles == AllTiles(tilesets)
        flagged == {i \in 1..Len(tiles) : TileFlags(tiles[i].props, Len(tiles[i].props)) # 0}
    IN  [id \in {tiles[i].id : i \in flagged} |->
            LET last == CHOOSE i \in flagged :
                            /\ tiles[i].id = id
                            /\ \A j \in flagged : tiles[j].id = id => j <= i
            IN  TileFlags(tiles[last].props, Len(tiles[last].props))]

\* collision_map.get(tile_id, 0)
MapGet(map, key) == IF key \in DOMAIN map THEN map[key] ELSE 0

\* A tile id that takes the first-id offset to be 1.
TileIdOneBased(stored, tileset_firstgid) ==
    IF stored = 0 THEN 0 ELSE stored - 1

\* the tile_ids entry of a stored cell value
TileId(stored, tileset_firstgid) ==
    IF stored = 0 THEN 0 ELSE stored - tileset_firstgid

\* A collision array that has a byte only for the cells that have flags.
CollisionBytesFlaggedOnly(tile_ids, collision_map) ==
    SelectSeq([i \in 1..Len(tile_ids) |-> MapGet(collision_map, tile_ids[i])],
              LAMBDA byte : byte # 0)

\* collision_bytes: one byte per entry of tile_ids
CollisionBytes(tile_ids, collision_map) ==
    [i \in 1..Len(tile_ids) |-> MapGet(collision_map, tile_ids[i])]

\* the layers that `layer_name is None or elem.get('name') == layer_name` takes
MatchingLayers(doc, layer_name) ==
    {i \in 1..Len(doc.layers) : layer_name = "" \/ doc.layers[i].name = layer_name}

\* parse_tmx_file: outcome "ok" with the five values returned, or the error
\* raised; collision_none says that collision_data is None.  None.strip() on a
\* data element without text raises AttributeError, which nothing catches.
parse_tmx_file(doc, layer_name) ==
    IF doc.tilewidth # 16 \/ doc.tileheight # 16 THEN [outcome |-> "NGResError"]
    ELSE IF MatchingLayers(doc, layer_name) = {} THEN [outcome |-> "NGResError"]
    ELSE
      LET tileset_firstgid ==
              IF doc.tilesets = << >> THEN 1
              ELSE IF doc.tilesets[1].firstgid = None THEN 1
              ELSE doc.tilesets[1].firstgid
          layer == doc.layers[CHOOSE i \in MatchingLayers(doc, layer_name) :
                                  \A j \in MatchingLayers(doc, layer_name) : i <= j]
          layer_width == IF layer.width = None THEN doc.map_width ELSE layer.width
          layer_height == IF layer.height = None THEN doc.map_height ELSE layer.height
      IN  IF ~layer.has_data THEN [outcome |-> "NGResError"]
          ELSE IF layer.encoding # "csv" THEN [outcome |-> "NGResError"]
          ELSE IF ~layer.has_text THEN [outcome |-> "AttributeError"]
          ELSE
            LET tile_ids == [i \in 1..Len(layer.text) |->
                                TileId(layer.text[i], tileset_firstgid)]
                collision_map == CollisionMap(doc.tilesets)
            IN  IF Len(tile_ids) # layer_width * layer_height
                THEN [outcome |-> "NGResError"]
                ELSE [outcome |-> "ok",
                      layer_width |-> layer_width,
                      layer_height |-> layer_height,
                      tile_data |-> [i \in 1..Len(tile_ids) |->
                                        Min(255, Max(0, tile_ids[i]))],
                      collision_none |-> DOMAIN collision_map = {},
                      collision_data |->
                          IF DOMAIN collision_map = {} THEN << >>
                          ELSE CollisionBytes(tile_ids, collision_map),
                      tileset_firstgid |-> tileset_firstgid]

\* ----------------------------------------------------------------- SpecTmx
\* One call of parse_tmx_file.

MaxGridDim == 2
MaxCells == 4

\* stored cell values: empty, ids at and above the offsets 1 and 5, an id
\* below the offset 5, and an id past 255
CellValues == {0, 1, 2, 6, 300}

CellTexts == UNION {[1..n -> CellValues] : n \in 0..MaxCells}

Tile(id, props) == [id |-> id, props |-> props]

TilesetOptions ==
    {<< >>,
     <<[firstgid |-> 1, tiles |-> << >>]>>,
     <<[firstgid |-> 5,
        tiles |-> <<Tile(0, << <<"Solid", "true">> >>),
                    Tile(1, << <<"platform", "1">>, <<"ladder", "YES">> >>),
                    Tile(4, << <<"hazard", "false">> >>)>>]>>,
     <<[firstgid |-> 1,
        tiles |-> <<Tile(5, << <<"slope_l", "true">>, <<"slope_r", "True">>,
                               <<"trigger", "yes">> >>),
                    Tile(5, << <<"hazard", "true">> >>),
                    Tile(1, << <<"water", "true">> >>)>>]>>,
     <<[firstgid |-> None, tiles |-> <<Tile(0, << <<"water", "true">> >>)>>]>>,
     <<[firstgid |-> 1, tiles |-> <<Tile(1, << <<"solid", "true">> >>)>>],
       [firstgid |-> 10, tiles |-> <<Tile(1, << <<"hazard", "yes">> >>)>>]>>}

Layer(name, w, h, text) ==
    [name |-> name, width |-> w, height |-> h, has_data |-> TRUE,
     encoding |-> "csv", has_text |-> TRUE, text |-> text]

Doc(tilesets, layers) ==
    [tilewidth |-> 16, tileheight |-> 16, map_width |-> 2, map_height |-> 1,
     tilesets |-> tilesets, layers |-> layers]

\* documents with one CSV layer
GridDocs ==
    {Doc(ts, <<Layer("Ground", w, h, text)>>) :
        ts \in TilesetOptions, w \in 1..MaxGridDim, h \in 1..MaxGridDim,
        text \in CellTexts}

\* a tileset and two layers for the documents below
TwoLayers ==
    <<Layer("Ground", 2, 1, <<1, 0>>), Layer("Walls", 1, 2, <<0, 6>>)>>

\* <<document, layer_name>>: the grids with the first layer taken, and
\* documents with another tile size, a layer taken by name or not found, no
\* layer, no data element, another encoding, a data element without text,
\* the layer size left to the map, and a grid of no cells
TmxCalls ==
    {<<d, "">> : d \in GridDocs}
      \cup {<<[Doc(<< >>, TwoLayers) EXCEPT !.tilewidth = 32], "">>,
            <<Doc(<< >>, TwoLayers), "Walls">>,
            <<Doc(<< >>, TwoLayers), "Sky">>,
            <<Doc(<< >>, << >>), "">>,
            <<Doc(<< >>, <<[Layer("Ground", 2, 1, << >>) EXCEPT !.has_data = FALSE]>>), "">>,
            <<Doc(<< >>, <<[Layer("Ground", 2, 1, << >>) EXCEPT !.encoding = "base64"]>>), "">>,
            <<Doc(<< >>, <<[Layer("Ground", 2, 1, << >>) EXCEPT !.has_text = FALSE]>>), "">>,
            <<Doc(<< >>, <<Layer("Ground", None, None, <<2, 1>>)>>), "">>,
            <<Doc(<< >>, <<Layer("Ground", 0, 2, << >>)>>), "">>}

TmxInit ==
    /\ xpc = "parse"
    /\ \E call \in TmxCalls : tmx = call[1] /\ layer_arg = call[2]
    /\ tmx_result = << >>

\* width, height, tile_data, collision_data, firstgid = parse_tmx_file(...)
ParseTmx ==
    /\ xpc = "parse"
    /\ LET r == parse_tmx_file(tmx, layer_arg)
       IN  /\ xpc' = r.outcome
           /\ tmx_result' = IF r.outcome = "ok" THEN r ELSE << >>
    /\ UNCHANGED <<tmx, layer_arg>>
    /\ UNCHANGED exceptTmx

TmxNext == ParseTmx

InitTmx ==
    /\ CodecIdle /\ EncodeIdle /\ PackIdle /\ AudioIdle /\ PaletteIdle
    /\ TileIdle /\ FramesIdle /\ SromIdle /\ IndexIdle /\ ColorIdle /\ TmxInit
    /\ TilemapIdle
    /\ MainIdle
    /\ ReuseIdle
    /\ AnimIdle

SpecTmx == InitTmx /\ [][TmxNext]_vars

\* the layer the call selects: the first one, or the first of the name asked
SelectedLayer ==
    tmx.layers[CHOOSE i \in MatchingLayers(tmx, layer_arg) :
                  \A j \in MatchingLayers(tmx, layer_arg) : i <= j]

\* the width and height the selected layer declares (the map's if it has none)
DeclaredWidth ==
    IF SelectedLayer.width = None THEN tmx.map_width ELSE SelectedLayer.width

DeclaredHeight ==
    IF SelectedLayer.height = None THEN tmx.map_height ELSE SelectedLayer.height

\* C19: a call ends with the domain error or returns W * H output indices for
\* the W and H the selected layer declares, and a stored cell value of 0 gives
\* the output index 0 whatever the first-id offset is.
C19_GridSize ==
    (xpc \notin {"parse", "idle"}) =>
        /\ xpc \in {"ok", "NGResError"}
        /\ (xpc = "ok") =>
              /\ Len(tmx_result.tile_data) = DeclaredWidth * DeclaredHeight
              /\ \A i \in 1..Len(tmx_result.tile_data) :
                    SelectedLayer.text[i] = 0 => tmx_result.tile_data[i] = 0

\* The same for a document whose data element has text.
GridSizeWithText ==
    (xpc \notin {"parse", "idle"} /\ \A i \in 1..Len(tmx.layers) : tmx.layers[i].has_text)
        => C19_GridSize

\* the property of this lower-case name is on the tile with a true value
HasTrue(props, prop_name) ==
    \E n \in 1..Len(props) :
        /\ Lower(props[n][1]) = prop_name
        /\ Lower(props[n][2]) \in {"true", "1", "yes"}

\* the flag byte of a tile element: solid 0x01, platform 0x02, slope_l 0x04,
\* slope_r 0x08, hazard 0x10, trigger 0x20, ladder 0x40
FlagByte(props) ==
    (IF HasTrue(props, "solid") THEN 1 ELSE 0)
      + (IF HasTrue(props, "platform") THEN 2 ELSE 0)
      + (IF HasTrue(props, "slope_l") THEN 4 ELSE 0)
      + (IF HasTrue(props, "slope_r") THEN 8 ELSE 0)
      + (IF HasTrue(props, "hazard") THEN 16 ELSE 0)
      + (IF HasTrue(props, "trigger") THEN 32 ELSE 0)
      + (IF HasTrue(props, "ladder") THEN 64 ELSE 0)

\* the flag byte extracted for a tile id: that of the last tile element of
\* the id that has a true recognised property, 0 if there is none
ExtractedFlags(id) ==
    LET tiles == AllTiles(tmx.tilesets)
        with == {i \in 1..Len(tiles) : tiles[i].id = id /\ FlagByte(tiles[i].props) # 0}
    IN  IF with = {} THEN 0
        ELSE FlagByte(tiles[CHOOSE i \in with : \A j \in with : j <= i].props)

\* the first-id offset of the document: that of its first tileset, 1 if the
\* document has no tileset or the tileset does not give one
FirstGid ==
    IF tmx.tilesets = << >> THEN 1
    ELSE IF tmx.tilesets[1].firstgid = None THEN 1
    ELSE tmx.tilesets[1].firstgid

\* C20: when a tile has a true recognised property, the call returns a
\* collision array of one byte per cell, and the byte of a cell is the flag
\* byte extracted for the cell's zero-based tile id (the stored value less the
\* first-id offset, 0 for a stored 0), which is 0 for a tile without flags.
C20_CollisionArray ==
    (/\ xpc = "ok"
     /\ \E i \in 1..Len(AllTiles(tmx.tilesets)) :
            FlagByte(AllTiles(tmx.tilesets)[i].props) # 0) =>
        /\ ~tmx_result.collision_none
        /\ Len(tmx_result.collision_data) = DeclaredWidth * DeclaredHeight
        /\ \A i \in 1..Len(tmx_result.collision_data) :
              LET stored == SelectedLayer.text[i]
                  id == IF stored = 0 THEN 0 ELSE stored - FirstGid
              IN  tmx_result.collision_data[i] = ExtractedFlags(id)

\* A 2 x 2 grid over the tileset of offset 5 whose tile 0 is solid and whose
\* tile 1 is platform and ladder: the cells 6, 0, 1, 300 get 0x42, 0x01 (the
\* empty cell reads tile 0), 0 (id -4) and 0 (id 295).
C20_Witness ==
    /\ xpc = "ok"
    /\ FirstGid = 5
    /\ SelectedLayer.text = <<6, 0, 1, 300>>
    /\ tmx_result.layer_width = 2 /\ tmx_result.layer_height = 2
    /\ tmx_result.collision_data = <<66, 1, 0, 0>>
    /\ tmx_result.tile_data = <<1, 0, 0, 255>>

\* C27: a stored cell id g other than 0 gives the output index
\* min(255, max(0, g - firstgid)), firstgid being the first-id offset of the
\* tileset, so every output index is in 0..255.
C27_IndexClamp ==
    (xpc = "ok") =>
        \A i \in 1..Len(tmx_result.tile_data) :
            LET g == SelectedLayer.text[i]
                shifted == g - FirstGid
            IN  /\ tmx_result.tile_data[i] \in 0..255
                /\ (g # 0) =>
                      tmx_result.tile_data[i] =
                          (IF shifted < 0 THEN 0 ELSE IF shifted > 255 THEN 255 ELSE shifted)

\* A grid over the tileset of offset 5: the stored ids 2 (below the offset),
\* 6, 300 (past 255 after the shift) and 1 give 0, 1, 255 and 0.
C27_Witness ==
    /\ xpc = "ok"
    /\ FirstGid = 5
    /\ SelectedLayer.text = <<2, 6, 300, 1>>
    /\ tmx_result.tile_data = <<0, 1, 255, 0>>

\* ----------------------------------------------------- process_tilemap_asset
\* A tilemap definition is
\*   [name, has_source, doc, layer, tileset, tileset_palettes, default_palette,
\*    collision]
\* doc is the TMX document at the source path; an absent name, layer or
\* tileset is ""; tileset_palettes is a sequence of [tiles, palette];
\* collision is the sequence of the <<coll_type, tile_indices>> items of the
\* YAML mapping, << >> when the key is absent or the mapping is empty.

\* the flag of a collision type of the YAML mapping, 0 for any other key
OverrideFlag(coll_type) ==
    IF coll_type = "solid" THEN 1
    ELSE IF coll_type = "platform" THEN 2
    ELSE IF coll_type = "slope_l" THEN 4
    ELSE IF coll_type = "slope_r" THEN 8
    ELSE IF coll_type = "hazard" THEN 16
    ELSE IF coll_type = "trigger" THEN 32
    ELSE IF coll_type = "ladder" THEN 64
    ELSE 0

\* the elements of a sequence
Range(seq) == {seq[i] : i \in 1..Len(seq)}

RECURSIVE OverrideMap(_, _)
\* collision_map after the first n items of collision_config
OverrideMap(collision_config, n) ==
    IF n = 0 THEN << >>
    ELSE LET prev == OverrideMap(collision_config, n - 1)
             flag == OverrideFlag(collision_config[n][1])
             tile_indices == collision_config[n][2]
         IN  IF flag # 0 /\ tile_indices # << >>
             THEN [idx \in DOMAIN prev \cup Range(tile_indices) |->
                      IF idx \in Range(tile_indices)
                      THEN BitOr(MapGet(prev, idx), flag)
                      ELSE prev[idx]]
             ELSE prev

RECURSIVE TileToPalette(_, _, _)
\* tile_to_palette after the first n entries of tileset_palettes; the entry
\* i of the list is the element i + 1 here
TileToPalette(tileset_palettes, default_palette, n) ==
    IF n = 0 THEN [i \in 1..256 |-> default_palette]
    ELSE LET prev == TileToPalette(tileset_palettes, default_palette, n - 1)
             pal_range == tileset_palettes[n]
         IN  IF Len(pal_range.tiles) = 2
             THEN [i \in 1..256 |->
                      IF /\ pal_range.tiles[1] <= i - 1
                         /\ i - 1 < Min(pal_range.tiles[2] + 1, 256)
                      THEN pal_range.palette
                      ELSE prev[i]]
             ELSE prev

\* the base tile of the visual asset a tilemap names; None if there is none
\* of the name
BaseTileOf(tileset_ref, visual_assets_info) ==
    LET found == {i \in 1..Len(visual_assets_info) :
                     visual_assets_info[i].name = tileset_ref}
    IN  IF found = {} THEN None
        ELSE visual_assets_info[CHOOSE i \in found : \A j \in found : i <= j].base_tile

\* collision_data once the overrides are applied: with a non-empty
\* collision_map every byte is computed anew from tile_data
OverrideCollision(tile_data, collision_map) ==
    [i \in 1..Len(tile_data) |-> MapGet(collision_map, tile_data[i])]

\* process_tilemap_asset: outcome "done" with the tilemap_info, or the error
process_tilemap_asset(def, visual_assets_info) ==
    IF def.name = "" THEN [outcome |-> "NGResError"]
    ELSE IF ~def.has_source THEN [outcome |-> "NGResError"]
    ELSE
      LET r == parse_tmx_file(def.doc, def.layer)
          tileset_base == IF def.tileset = "" THEN 0
                          ELSE BaseTileOf(def.tileset, visual_assets_info)
          collision_map == OverrideMap(def.collision, Len(def.collision))
          replaced == def.collision # << >> /\ DOMAIN collision_map # {}
      IN  IF r.outcome # "ok" THEN [outcome |-> r.outcome]
          ELSE IF tileset_base = None THEN [outcome |-> "NGResError"]
          ELSE [outcome |-> "done",
                info |->
                  [name |-> def.name,
                   width_tiles |-> r.layer_width,
                   height_tiles |-> r.layer_height,
                   base_tile |-> tileset_base,
                   tile_data |-> r.tile_data,
                   collision_none |-> IF replaced THEN FALSE ELSE r.collision_none,
                   collision_data |->
                       IF replaced
                       THEN OverrideCollision(r.tile_data, collision_map)
                       ELSE r.collision_data,
                   tile_to_palette |->
                       TileToPalette(def.tileset_palettes, def.default_palette,
                                     Len(def.tileset_palettes)),
                   default_palette |-> def.default_palette]]

\* -------------------------------------------------------------- SpecTilemap
\* One call of process_tilemap_asset.

MaxMapCells == 2

\* the cell texts of a grid of MaxMapCells x 1 cells
MapTexts == [1..MaxMapCells -> CellValues]

\* collision overrides: none, one type, two types that share a tile id, a
\* key that is not a collision type, a type with an empty list, the tile id
\* of the empty cell, and the tile id an id past 255 is clamped to
CollisionConfigs ==
    {<< >>,
     << <<"solid", <<1>> >> >>,
     << <<"solid", <<1, 5>> >>, <<"hazard", <<5>> >> >>,
     << <<"water", <<1>> >> >>,
     << <<"ladder", << >> >> >>,
     << <<"platform", <<0>> >> >>,
     << <<"trigger", <<255>> >>, <<"water", <<1>> >> >>}

\* the visual assets processed before the tilemaps
TilesetAssets == <<[name |-> "level_tileset", base_tile |-> 320]>>

TilemapDef(doc, tileset, collision) ==
    [name |-> "level1_ground", has_source |-> TRUE, doc |-> doc, layer |-> "",
     tileset |-> tileset, tileset_palettes |-> <<[tiles |-> <<0, 31>>, palette |-> 5]>>,
     default_palette |-> 2, collision |-> collision]

\* definitions over every grid, tileset and override, and definitions without
\* a name or a source, with a layer that is not there, with a data element
\* without text, and with palette ranges that overlap or are not a pair
TilemapDefs ==
    {TilemapDef(Doc(ts, <<Layer("Ground", MaxMapCells, 1, text)>>), tileset, collision) :
        ts \in TilesetOptions, text \in MapTexts,
        tileset \in {"", "level_tileset", "missing"},
        collision \in CollisionConfigs}
      \cup {[TilemapDef(Doc(<< >>, TwoLayers), "", << >>) EXCEPT !.name = ""],
            [TilemapDef(Doc(<< >>, TwoLayers), "", << >>) EXCEPT !.has_source = FALSE],
            [TilemapDef(Doc(<< >>, TwoLayers), "", << >>) EXCEPT !.layer = "Sky"],
            [TilemapDef(Doc(<< >>, TwoLayers), "", << >>) EXCEPT !.layer = "Walls"],
            TilemapDef(Doc(<< >>, <<[Layer("Ground", 2, 1, << >>)
                                        EXCEPT !.has_text = FALSE]>>), "", << >>),
            [TilemapDef(Doc(<< >>, TwoLayers), "", << >>) EXCEPT
                !.tileset_palettes = <<[tiles |-> <<0, 300>>, palette |-> 5],
                                       [tiles |-> <<2, 3>>, palette |-> 7],
                                       [tiles |-> <<1>>, palette |-> 9]>>]}

TilemapInit ==
    /\ mpc = "process"
    /\ tilemap_def \in TilemapDefs
    /\ tilemap_info = << >>

\* tilemap_info = process_tilemap_asset(tilemap_def, yaml_dir, visual_assets_info)
ProcessTilemapAsset ==
    /\ mpc = "process"
    /\ LET r == process_tilemap_asset(tilemap_def, TilesetAssets)
       IN  /\ mpc' = r.outcome
           /\ tilemap_info' = IF r.outcome = "done" THEN r.info ELSE << >>
    /\ UNCHANGED tilemap_def
    /\ UNCHANGED exceptTilemap

TilemapNext == ProcessTilemapAsset

InitTilemap ==
    /\ CodecIdle /\ EncodeIdle /\ PackIdle /\ AudioIdle /\ PaletteIdle
    /\ TileIdle /\ FramesIdle /\ SromIdle /\ IndexIdle /\ ColorIdle /\ TmxIdle
    /\ TilemapInit
    /\ MainIdle
    /\ ReuseIdle
    /\ AnimIdle

SpecTilemap == InitTilemap /\ [][TilemapNext]_vars

\* what parse_tmx_file extracted for the definition's document
AutoExtracted == parse_tmx_file(tilemap_def.doc, tilemap_def.layer)

\* the flag byte parse_tmx_file extracted for cell i, 0 without a collision array
AutoByte(i) ==
    IF AutoExtracted.collision_none THEN 0 ELSE AutoExtracted.collision_data[i]

\* the flag byte of cell i in the tilemap_info, 0 without a collision array
InfoByte(i) ==
    IF tilemap_info.collision_none THEN 0 ELSE tilemap_info.collision_data[i]

\* the tile ids an override lists under a collision type
ListedIds ==
    UNION {Range(tilemap_def.collision[n][2]) :
              n \in {k \in 1..Len(tilemap_def.collision) :
                        OverrideFlag(tilemap_def.collision[k][1]) # 0}}

\* the OR of the flags of the collision types that list the tile id
ListedFlags(id) ==
    LET has(type) == \E n \in 1..Len(tilemap_def.collision) :
                        /\ tilemap_def.collision[n][1] = type
                        /\ id \in Range(tilemap_def.collision[n][2])
    IN  (IF has("solid") THEN 1 ELSE 0) + (IF has("platform") THEN 2 ELSE 0)
          + (IF has("slope_l") THEN 4 ELSE 0) + (IF has("slope_r") THEN 8 ELSE 0)
          + (IF has("hazard") THEN 16 ELSE 0) + (IF has("trigger") THEN 32 ELSE 0)
          + (IF has("ladder") THEN 64 ELSE 0)

\* C21: a cell whose tile id an override lists gets exactly the OR of the
\* override flags listed for the id, and a cell whose tile id no override
\* lists keeps the flag byte extracted from the tile properties.
C21_OverridesListedOnly ==
    (mpc = "done") =>
        \A i \in 1..Len(tilemap_info.tile_data) :
            IF tilemap_info.tile_data[i] \in ListedIds
            THEN InfoByte(i) = ListedFlags(tilemap_info.tile_data[i])
            ELSE InfoByte(i) = AutoByte(i)

\* What does hold: when an override lists a tile id, every byte of the
\* collision array is the OR of the override flags of the cell's tile id, 0
\* for an id that is not listed; without one the extracted array is kept.
OverridesReplaceAll ==
    (mpc = "done") =>
        \A i \in 1..Len(tilemap_info.tile_data) :
            IF ListedIds # {}
            THEN InfoByte(i) = ListedFlags(tilemap_info.tile_data[i])
            ELSE InfoByte(i) = AutoByte(i)

\* the stored cell values of the layer the definition selects
StoredCells ==
    tilemap_def.doc.layers[CHOOSE i \in MatchingLayers(tilemap_def.doc, tilemap_def.layer) :
        \A j \in MatchingLayers(tilemap_def.doc, tilemap_def.layer) : i <= j].text

\* C30: in a collision array, from tile properties or from overrides, every
\* cell whose stored id is 0 (empty) has flag byte 0, whatever flags tile id
\* 0 of the tileset carries.
C30_EmptyCellsClear ==
    (mpc = "done" /\ ~tilemap_info.collision_none) =>
        \A i \in 1..Len(tilemap_info.collision_data) :
            StoredCells[i] = 0 => tilemap_info.collision_data[i] = 0

\* What does hold: an empty cell has the flag byte of tile id 0, which is the
\* OR of the override flags that list id 0 when an override lists a tile id,
\* and the flags of the tileset's tile 0 otherwise; it is 0 when neither
\* gives tile id 0 a flag.
EmptyCellsFollowTileZero ==
    (mpc = "done" /\ ~tilemap_info.collision_none) =>
        \A i \in 1..Len(tilemap_info.collision_data) :
            StoredCells[i] = 0 =>
                tilemap_info.collision_data[i] =
                    IF ListedIds # {} THEN ListedFlags(0)
                    ELSE MapGet(CollisionMap(tilemap_def.doc.tilesets), 0)

\* ------------------------------------------------------------------ SpecMain
\* main() from the palette loop to the output files.  What an asset costs is
\* kept (tiles, bytes, addresses); its pixels and samples are the subject of
\* the specifications above.  The audio section is the one of SpecAudio.
\*   config = [palettes, visual_assets, tilemaps, eyecatcher]
\* palettes and tilemaps hold, per definition, whether it can be processed
\* (FALSE: processing it raises NGResError); a visual asset is
\* [frame_count, tiles_x, tiles_y, valid]; eyecatcher is [exists, c1, c2], the
\* sizes of eyecatcher-c1.bin and eyecatcher-c2.bin in the SDK's rom directory.

\* user tiles start at tile 320
TILE_START == 320

\* the C-ROM files are padded to 64 KB, the V-ROM file to 512 KB
min_size == 65536

min_v_size == 524288

\* EYECATCHER_OFFSET = 256 * TILE_SIZE
EYECATCHER_OFFSET == 256 * TILE_SIZE

\* len(generate_z80_sample_tables(...)): 32 entries of 4 bytes and 32 of 6
SAMPLE_TABLES_SIZE == 32 * 4 + 32 * 6

\* len(data) after data[offset:offset + n] = <n bytes> on a bytearray
SliceAssignLen(len, offset, n) == Max(len, offset + n)

\* total_tiles = frame_count * tiles_per_frame
total_tiles(asset_def) == asset_def.frame_count * (asset_def.tiles_x * asset_def.tiles_y)

\* process_visual_asset as main() sees it: the error, or the two tile buffers
\* (one tile_to_crom result of TILE_SIZE bytes each per tile), the info and
\* the tile count
process_visual_asset(asset_def, base) ==
    IF ~asset_def.valid THEN [error |-> TRUE]
    ELSE [error |-> FALSE,
          c1 |-> total_tiles(asset_def) * TILE_SIZE,
          c2 |-> total_tiles(asset_def) * TILE_SIZE,
          info |-> [base_tile |-> base,
                    tiles_per_frame |-> asset_def.tiles_x * asset_def.tiles_y,
                    frame_count |-> asset_def.frame_count],
          tile_count |-> total_tiles(asset_def)]

MaxVisual == 2
MaxRunAudio == 33

VisualDef(frames, w, h) ==
    [frame_count |-> frames, tiles_x |-> w, tiles_y |-> h, valid |-> TRUE]

VisualDefs ==
    {VisualDef(1, 1, 1), VisualDef(2, 2, 1), VisualDef(3, 1, 2),
     [VisualDef(1, 1, 1) EXCEPT !.valid = FALSE]}

VisualLists == UNION {[1..k -> VisualDefs] : k \in 0..MaxVisual}

\* n source files of 1 and 513 samples in turn (256 and 512 bytes encoded)
Alternating(n) == [i \in 1..n |-> IF i % 2 = 1 THEN 1 ELSE 513]

\* no audio, one asset, more assets than the cap takes, and three assets of
\* which the second reaches past the address limit
RunSfxLists == {<< >>, <<1>>, Alternating(MaxRunAudio), <<33553408, 33553408, 1>>}

RunMusicLists == {<< >>, Alternating(MaxRunAudio + 1), <<33553408, 33553408, 1>>}

\* no eyecatcher files, files of 64 tiles, and files of other sizes
Eyecatchers ==
    {[exists |-> FALSE, c1 |-> 0, c2 |-> 0],
     [exists |-> TRUE, c1 |-> 64 * TILE_SIZE, c2 |-> 64 * TILE_SIZE],
     [exists |-> TRUE, c1 |-> 128 * TILE_SIZE, c2 |-> 64 * TILE_SIZE]}

RunConfigs ==
    [palettes : {<< >>, <<TRUE>>, <<TRUE, FALSE>>},
     visual_assets : VisualLists,
     tilemaps : {<< >>, <<TRUE>>, <<TRUE, FALSE, TRUE>>},
     eyecatcher : Eyecatchers]

\* main() with the configuration loaded and the registry created
MainInit ==
    /\ rpc = "palettes"
    /\ config \in RunConfigs
    /\ registered = 0
    /\ base_tile = 0
    /\ all_c1_data = 0
    /\ all_c2_data = 0
    /\ visual_infos = << >>
    /\ tilemap_info_list = << >>
    /\ written = << >>
    /\ exit_status = None
    /\ apc = "pending"
    /\ sound_effects_config \in RunSfxLists
    /\ music_config \in RunMusicLists
    /\ audio_offset = 0
    /\ all_v1_data = 0
    /\ sfx_info_list = << >>
    /\ music_info_list = << >>

\* what no step of the run before the output section changes
RunOutputsUnchanged == UNCHANGED <<config, written>>

\* one iteration of the palette loop
RunPaletteDef ==
    /\ rpc = "palettes"
    /\ registered < Len(config.palettes)
    /\ IF config.palettes[registered + 1]
       THEN /\ registered' = registered + 1
            /\ UNCHANGED <<rpc, exit_status>>
       ELSE /\ rpc' = "exit1"
            /\ exit_status' = 1
            /\ UNCHANGED registered
    /\ RunOutputsUnchanged
    /\ UNCHANGED <<base_tile, all_c1_data, all_c2_data, visual_infos, tilemap_info_list>>
    /\ UNCHANGED exceptMain

\* the palette loop is through: both tile buffers are allocated for the
\* reserved tiles, the eyecatcher files are copied in at tile 256, and the
\* tile counter is set
AllocateTiles ==
    /\ rpc = "palettes"
    /\ registered = Len(config.palettes)
    /\ rpc' = "visual"
    /\ all_c1_data' =
           IF config.eyecatcher.exists
           THEN SliceAssignLen(TILE_START * TILE_SIZE, EYECATCHER_OFFSET, config.eyecatcher.c1)
           ELSE TILE_START * TILE_SIZE
    /\ all_c2_data' =
           IF config.eyecatcher.exists
           THEN SliceAssignLen(TILE_START * TILE_SIZE, EYECATCHER_OFFSET, config.eyecatcher.c2)
           ELSE TILE_START * TILE_SIZE
    /\ base_tile' = TILE_START
    /\ RunOutputsUnchanged
    /\ UNCHANGED <<registered, visual_infos, tilemap_info_list, exit_status>>
    /\ UNCHANGED exceptMain

\* one iteration of the visual-asset loop
RunVisualAsset ==
    /\ rpc = "visual"
    /\ Len(visual_infos) < Len(config.visual_assets)
    /\ LET r == process_visual_asset(config.visual_assets[Len(visual_infos) + 1], base_tile)
       IN  IF r.error
           THEN /\ rpc' = "exit1"
                /\ exit_status' = 1
                /\ UNCHANGED <<base_tile, all_c1_data, all_c2_data, visual_infos>>
           ELSE /\ all_c1_data' = all_c1_data + r.c1
                /\ all_c2_data' = all_c2_data + r.c2
                /\ visual_infos' = Append(visual_infos, r.info)
                /\ base_tile' = base_tile + r.tile_count
                /\ UNCHANGED <<rpc, exit_status>>
    /\ RunOutputsUnchanged
    /\ UNCHANGED <<registered, tilemap_info_list>>
    /\ UNCHANGED exceptMain

\* the visual-asset loop is through: the audio section begins
BeginAudio ==
    /\ rpc = "visual"
    /\ Len(visual_infos) = Len(config.visual_assets)
    /\ rpc' = "audio"
    /\ apc' = "sfx"
    /\ all_v1_data' = 0
    /\ sfx_info_list' = << >>
    /\ music_info_list' = << >>
    /\ audio_offset' = 0
    /\ UNCHANGED <<sound_effects_config, music_config>>
    /\ UNCHANGED <<config, registered, base_tile, all_c1_data, all_c2_data,
                   visual_infos, tilemap_info_list, written, exit_status>>
    /\ UNCHANGED <<codecVars, encodeVars, packVars, paletteVars, tileVars, framesVars,
                   sromVars, indexVars, colorVars, tmxVars, tilemapVars, reuseVars,
                   animVars>>

\* the except clause of an audio loop: sys.exit(1)
AudioExit ==
    /\ rpc = "audio"
    /\ apc = "exit1"
    /\ rpc' = "exit1"
    /\ exit_status' = 1
    /\ RunOutputsUnchanged
    /\ UNCHANGED <<registered, base_tile, all_c1_data, all_c2_data, visual_infos,
                   tilemap_info_list>>
    /\ UNCHANGED exceptMain

\* one iteration of the tilemap loop
RunTilemap ==
    /\ rpc = "audio"
    /\ apc = "done"
    /\ Len(tilemap_info_list) < Len(config.tilemaps)
    /\ IF config.tilemaps[Len(tilemap_info_list) + 1]
       THEN /\ tilemap_info_list' = Append(tilemap_info_list, Len(tilemap_info_list))
            /\ UNCHANGED <<rpc, exit_status>>
       ELSE /\ rpc' = "exit1"
            /\ exit_status' = 1
            /\ UNCHANGED tilemap_info_list
    /\ RunOutputsUnchanged
    /\ UNCHANGED <<registered, base_tile, all_c1_data, all_c2_data, visual_infos>>
    /\ UNCHANGED exceptMain

\* the tilemap loop is through: the output directory is created and both
\* tile buffers are padded to min_size
PadCRoms ==
    /\ rpc = "audio"
    /\ apc = "done"
    /\ Len(tilemap_info_list) = Len(config.tilemaps)
    /\ rpc' = "write_c1"
    /\ all_c1_data' = Max(all_c1_data, min_size)
    /\ all_c2_data' = Max(all_c2_data, min_size)
    /\ RunOutputsUnchanged
    /\ UNCHANGED <<registered, base_tile, visual_infos, tilemap_info_list, exit_status>>
    /\ UNCHANGED exceptMain

\* A write of the first tile file that does not wait for the tilemaps.
WriteC1BeforeTilemaps ==
    /\ rpc \in {"audio", "write_c1"}
    /\ apc = "done"
    /\ rpc' = "write_c2"
    /\ written' = Append(written, [file |-> "c1", size |-> all_c1_data])
    /\ UNCHANGED <<config, registered, base_tile, all_c1_data, all_c2_data,
                   visual_infos, tilemap_info_list, exit_status>>
    /\ UNCHANGED exceptMain

WriteC1 ==
    /\ rpc = "write_c1"
    /\ rpc' = "write_c2"
    /\ written' = Append(written, [file |-> "c1", size |-> all_c1_data])
    /\ UNCHANGED <<config, registered, base_tile, all_c1_data, all_c2_data,
                   visual_infos, tilemap_info_list, exit_status>>
    /\ UNCHANGED exceptMain

WriteC2 ==
    /\ rpc = "write_c2"
    /\ rpc' = IF sfx_info_list # << >> \/ music_info_list # << >>
              THEN "write_v1" ELSE "header"
    /\ written' = Append(written, [file |-> "c2", size |-> all_c2_data])
    /\ UNCHANGED <<config, registered, base_tile, all_c1_data, all_c2_data,
                   visual_infos, tilemap_info_list, exit_status>>
    /\ UNCHANGED exceptMain

\* the audio buffer is padded to min_v_size and written
WriteV1 ==
    /\ rpc = "write_v1"
    /\ rpc' = "write_tables"
    /\ all_v1_data' = Max(all_v1_data, min_v_size)
    /\ written' = Append(written, [file |-> "v1", size |-> Max(all_v1_data, min_v_size)])
    /\ UNCHANGED <<apc, sound_effects_config, music_config, audio_offset,
                   sfx_info_list, music_info_list>>
    /\ UNCHANGED <<config, registered, base_tile, all_c1_data, all_c2_data,
                   visual_infos, tilemap_info_list, exit_status>>
    /\ UNCHANGED <<codecVars, encodeVars, packVars, paletteVars, tileVars, framesVars,
                   sromVars, indexVars, colorVars, tmxVars, tilemapVars, reuseVars,
                   animVars>>

\* the Z80 sample tables are generated and written
WriteTables ==
    /\ rpc = "write_tables"
    /\ rpc' = "header"
    /\ written' = Append(written, [file |-> "m1_tables", size |-> SAMPLE_TABLES_SIZE])
    /\ UNCHANGED <<config, registered, base_tile, all_c1_data, all_c2_data,
                   visual_infos, tilemap_info_list, exit_status>>
    /\ UNCHANGED exceptMain

\* generate_header writes the header; main() returns
GenerateHeader ==
    /\ rpc = "header"
    /\ rpc' = "done"
    /\ written' = Append(written, [file |-> "header", size |-> 0])
    /\ exit_status' = 0
    /\ UNCHANGED <<config, registered, base_tile, all_c1_data, all_c2_data,
                   visual_infos, tilemap_info_list>>
    /\ UNCHANGED exceptMain

MainNext ==
    \/ RunPaletteDef
    \/ AllocateTiles
    \/ RunVisualAsset
    \/ BeginAudio
    \/ ProcessSoundEffect
    \/ SfxLoopEnd
    \/ ProcessMusic
    \/ MusicLoopEnd
    \/ AudioExit
    \/ RunTilemap
    \/ PadCRoms
    \/ WriteC1
    \/ WriteC2
    \/ WriteV1
    \/ WriteTables
    \/ GenerateHeader

InitMain ==
    /\ CodecIdle /\ EncodeIdle /\ PackIdle /\ PaletteIdle
    /\ TileIdle /\ FramesIdle /\ SromIdle /\ IndexIdle /\ ColorIdle /\ TmxIdle
    /\ TilemapIdle
    /\ MainInit
    /\ ReuseIdle
    /\ AnimIdle

SpecMain == InitMain /\ [][MainNext]_vars

\* every palette, visual asset and tilemap of the configuration can be processed
ErrorFreeConfig ==
    /\ \A i \in 1..Len(config.palettes) : config.palettes[i]
    /\ \A i \in 1..Len(config.visual_assets) : config.visual_assets[i].valid
    /\ \A i \in 1..Len(config.tilemaps) : config.tilemaps[i]

\* every loop of main() has run to its end
AllProcessed ==
    /\ registered = Len(config.palettes)
    /\ Len(visual_infos) = Len(config.visual_assets)
    /\ apc = "done"
    /\ Len(sfx_info_list) = Min(Len(sound_effects_config), 32)
    /\ Len(music_info_list) = Min(Len(music_config), 32)
    /\ Len(tilemap_info_list) = Len(config.tilemaps)

\* the names of the files written
FilesWritten == {written[i].file : i \in 1..Len(written)}

\* C22: when processing an asset of any class raises the domain error, the
\* run ends with the failure status and no output file has been written; a
\* file is written only after every asset of every class was processed
\* without error.
C22_NoPartialOutput ==
    /\ (rpc = "exit1" \/ apc = "exit1") => written = << >>
    /\ (rpc = "exit1") <=> (exit_status = 1)
    /\ (written # << >>) => (AllProcessed /\ ErrorFreeConfig /\ exit_status # 1)
    /\ (exit_status = 0) => (AllProcessed /\ ErrorFreeConfig)
    /\ (~ENABLED MainNext) =>
          \/ exit_status = 1 /\ written = << >>
          \/ exit_status = 0 /\ {"c1", "c2", "header"} \subseteq FilesWritten

\* A run whose second tilemap fails, after 32 sound effects and 32 tracks
\* were encoded: status 1, nothing written.
C22_Witness ==
    /\ rpc = "exit1"
    /\ exit_status = 1
    /\ written = << >>
    /\ Len(sfx_info_list) = 32
    /\ Len(music_info_list) = 32
    /\ Len(tilemap_info_list) = 1
    /\ ~config.tilemaps[2]

RECURSIVE SumAdpcm(_, _)
\* the encoded bytes of the first k source files of a list
SumAdpcm(lens, k) == IF k = 0 THEN 0 ELSE SumAdpcm(lens, k - 1) + AdpcmDataLen(lens[k])

\* C23: at most 32 sound effects and 32 music tracks are processed, with the
\* indices 0..31 in input order; the entries past the 32nd raise no error and
\* take no audio address space, and the other audio class and the tilemaps
\* are processed after them.
C23_AudioCap ==
    /\ Len(sfx_info_list) <= 32
    /\ Len(music_info_list) <= 32
    /\ \A i \in 1..Len(sfx_info_list) :
          /\ sfx_info_list[i].index = i - 1
          /\ sfx_info_list[i].size = AdpcmDataLen(sound_effects_config[i])
    /\ \A i \in 1..Len(music_info_list) :
          /\ music_info_list[i].index = i - 1
          /\ music_info_list[i].size = AdpcmDataLen(music_config[i])
    /\ (apc \in {"sfx", "music", "done"}) =>
          audio_offset = SumAdpcm(sound_effects_config, Len(sfx_info_list))
                           + SumAdpcm(music_config, Len(music_info_list))
    /\ (rpc = "audio") => all_v1_data = audio_offset
    /\ (apc = "exit1") =>
          \/ Len(sfx_info_list) < 32 /\ music_info_list = << >>
          \/ Len(music_info_list) < 32
    /\ (apc = "music") => Len(sfx_info_list) = Min(Len(sound_effects_config), 32)
    /\ (apc = "done") => Len(music_info_list) = Min(Len(music_config), 32)
    /\ (rpc \in {"write_c1", "write_c2", "write_v1", "write_tables", "header", "done"}) =>
          /\ apc = "done"
          /\ Len(tilemap_info_list) = Len(config.tilemaps)

\* A finished run over 33 sound effects and 34 tracks: 32 of each were
\* processed, the last with index 31, the tilemap was processed after them,
\* and the audio buffer holds no byte of the entries past the 32nd.
C23_Witness ==
    /\ rpc = "done"
    /\ Len(sound_effects_config) = 33
    /\ Len(music_config) = 34
    /\ Len(sfx_info_list) = 32
    /\ sfx_info_list[32].index = 31
    /\ Len(music_info_list) = 32
    /\ music_info_list[32].index = 31
    /\ audio_offset = 2 * 16 * (256 + 512)
    /\ tilemap_info_list = <<0>>
    /\ FilesWritten = {"c1", "c2", "v1", "m1_tables", "header"}

RECURSIVE SumTiles(_, _)
\* the tiles of the first k visual assets of the configuration
SumTiles(assets, k) == IF k = 0 THEN 0 ELSE SumTiles(assets, k - 1) + total_tiles(assets[k])

\* C25: the base tile of a visual asset is 320 plus the tile counts of the
\* assets processed before it, the tile ranges of two assets do not overlap,
\* and after each processed asset both tile buffers have the same length,
\* the next base tile times 64 bytes.
C25_BaseTiles ==
    /\ \A i \in 1..Len(visual_infos) :
          /\ visual_infos[i].base_tile = TILE_START + SumTiles(config.visual_assets, i - 1)
          /\ \A j \in 1..(i - 1) :
                visual_infos[j].base_tile + total_tiles(config.visual_assets[j])
                    <= visual_infos[i].base_tile
    /\ (rpc \in {"visual", "audio"} /\ visual_infos # << >>) =>
          /\ base_tile = TILE_START + SumTiles(config.visual_assets, Len(visual_infos))
          /\ all_c1_data = all_c2_data
          /\ all_c1_data = base_tile * TILE_SIZE

\* What does hold: the base tiles are as C25 says for every run, and the
\* buffer lengths are as it says when there are no eyecatcher files or
\* neither is longer than the 64 tiles from tile 256 on.
BaseTilesWithinReserved ==
    /\ \A i \in 1..Len(visual_infos) :
          /\ visual_infos[i].base_tile = TILE_START + SumTiles(config.visual_assets, i - 1)
          /\ \A j \in 1..(i - 1) :
                visual_infos[j].base_tile + total_tiles(config.visual_assets[j])
                    <= visual_infos[i].base_tile
    /\ (/\ rpc \in {"visual", "audio"}
        /\ config.eyecatcher.exists =>
              /\ config.eyecatcher.c1 <= 64 * TILE_SIZE
              /\ config.eyecatcher.c2 <= 64 * TILE_SIZE) =>
          /\ base_tile = TILE_START + SumTiles(config.visual_assets, Len(visual_infos))
          /\ all_c1_data = all_c2_data
          /\ all_c1_data = base_tile * TILE_SIZE

\* ---------------------------------------------------------------- SpecReuse
\* encode() called on one encoder object, once and again.

\* encode() calls per encoder object
MaxCalls == 2

\* the lengths of the streams given to an encoder
ReuseLens == {0, 1, 512}

\* An encode() that keeps the state the last stream left.
EncodeCallNoReset(n, p) ==
    /\ epc \in {"idle", "done"}
    /\ encode_calls < MaxCalls
    /\ stream' = [len |-> n, pat |-> p]
    /\ UNCHANGED <<encA, encB>>
    /\ pad_len' = PadLen(n)
    /\ pos' = 0
    /\ adpcms' = << >>
    /\ epc' = "encoding"
    /\ encode_calls' = encode_calls + 1
    /\ prev_state' = IF codec = "A" THEN encA ELSE encB
    /\ UNCHANGED <<codec, decA, decB, nsamples, last_code>>
    /\ UNCHANGED <<packVars, audioVars, paletteVars, tileVars, framesVars, sromVars,
                   indexVars, colorVars, tmxVars, tilemapVars, mainVars, animVars>>

\* encode(samples) is called on an encoder that is new or has returned from
\* an earlier call: self.reset(), then the padding is sized
EncodeCall(n, p) ==
    /\ epc \in {"idle", "done"}
    /\ encode_calls < MaxCalls
    /\ stream' = [len |-> n, pat |-> p]
    /\ encA' = ADPCM_A_reset
    /\ encB' = ADPCM_B_reset
    /\ pad_len' = PadLen(n)
    /\ pos' = 0
    /\ adpcms' = << >>
    /\ epc' = "encoding"
    /\ encode_calls' = encode_calls + 1
    /\ prev_state' = IF codec = "A" THEN encA ELSE encB
    /\ UNCHANGED <<codec, decA, decB, nsamples, last_code>>
    /\ UNCHANGED <<packVars, audioVars, paletteVars, tileVars, framesVars, sromVars,
                   indexVars, colorVars, tmxVars, tilemapVars, mainVars, animVars>>

ReuseNext ==
    \/ \E n \in ReuseLens, p \in Patterns : EncodeCall(n, p)
    \/ EncodeStep
    \/ EncodeEnd

InitReuse ==
    /\ CodecInit /\ EncodeIdle /\ PackIdle /\ AudioIdle /\ PaletteIdle
    /\ TileIdle /\ FramesIdle /\ SromIdle /\ IndexIdle /\ ColorIdle /\ TmxIdle
    /\ TilemapIdle
    /\ MainIdle
    /\ ReuseIdle
    /\ AnimIdle

SpecReuse == InitReuse /\ [][ReuseNext]_vars

\* the reset state of the codec in use
FreshState == IF codec = "A" THEN ADPCM_A_reset ELSE ADPCM_B_reset

\* the codes a new encoder emits for the first k elements of the padded stream
FreshCodes(k) ==
    LET input == RefRun([state |-> FreshState, codes |-> << >>], 0, Min(k, stream.len), FALSE)
    IN  RefRun(input, Min(k, stream.len), k, TRUE).codes

\* C24: encode() resets the codec at the start of every stream, and the codes
\* it emits for a stream are those a new encoder emits for it, whatever
\* streams the encoder object has encoded before.
C24_NoStateLeak ==
    /\ (epc = "encoding" /\ pos = 0) => (IF codec = "A" THEN encA ELSE encB) = FreshState
    /\ (epc = "done") => adpcms = FreshCodes(pad_len)

\* The second call on an encoder that the first stream, 512 samples at the
\* extremes, left away from the reset state; the second stream is not empty.
C24_Witness ==
    /\ epc = "done"
    /\ encode_calls = 2
    /\ prev_state # FreshState
    /\ stream.len = 1
    /\ stream.pat = 3
    /\ Len(adpcms) = 512

\* ------------------------------------------------------------- animations
\* A frame specification is [kind |-> "int", n], [kind |-> "str", item] or
\* [kind |-> "list", items]; an item is [kind |-> "int", n], a string
\* "<start>-<end>" of digits ([kind |-> "range", start, end]), a string that
\* int() reads ([kind |-> "num", n]) or one that it does not ([kind |-> "bad"]).

\* range(start, end + 1) as a list
RangeList(start, end) == [i \in 1..(end + 1 - start) |-> start + i - 1]

\* the frames of a string item, or the error it raises
ParseStr(item) ==
    IF item.kind = "range"
    THEN IF item.start > item.end THEN [outcome |-> "NGResError", frames |-> << >>]
         ELSE [outcome |-> "ok", frames |-> RangeList(item.start, item.end)]
    ELSE IF item.kind = "num" THEN [outcome |-> "ok", frames |-> <<item.n>>]
    ELSE [outcome |-> "ValueError", frames |-> << >>]

RECURSIVE ParseItems(_, _)
\* result after the first n items of a list specification
ParseItems(items, n) ==
    IF n = 0 THEN [outcome |-> "ok", frames |-> << >>]
    ELSE LET prev == ParseItems(items, n - 1)
             this == IF items[n].kind = "int"
                     THEN [outcome |-> "ok", frames |-> <<items[n].n>>]
                     ELSE ParseStr(items[n])
         IN  IF prev.outcome # "ok" THEN prev
             ELSE IF this.outcome # "ok" THEN this
             ELSE [outcome |-> "ok", frames |-> prev.frames \o this.frames]

\* parse_frame_spec: the list of frame indices, or the error raised
parse_frame_spec(spec) ==
    IF spec.kind = "int" THEN [outcome |-> "ok", frames |-> <<spec.n>>]
    ELSE IF spec.kind = "list" THEN ParseItems(spec.items, Len(spec.items))
    ELSE IF spec.kind = "str" THEN ParseStr(spec.item)
    ELSE [outcome |-> "NGResError", frames |-> << >>]

\* the anim_defs entry of a validated frame list (name, speed and loop do
\* not enter the frames and are left out)
AnimDef(frame_list) ==
    [first_frame |-> frame_list[1], frame_count |-> Len(frame_list)]

\* one pass of process_visual_asset's loop over the animations: an entry is
\* [form |-> "frame", n], [form |-> "frames", spec], a dict with neither
\* ([form |-> "missing"]) or a plain value ([form |-> "plain", n])
ProcessAnimationEntry(anim_spec, count) ==
    LET parsed == IF anim_spec.form = "frames" THEN parse_frame_spec(anim_spec.spec)
                  ELSE IF anim_spec.form = "missing"
                  THEN [outcome |-> "NGResError", frames |-> << >>]
                  ELSE [outcome |-> "ok", frames |-> <<anim_spec.n>>]
        frame_list == parsed.frames
    IN  IF parsed.outcome # "ok" THEN [outcome |-> parsed.outcome]
        ELSE IF \E i \in 1..Len(frame_list) : frame_list[i] < 0 \/ frame_list[i] >= count
        THEN [outcome |-> "NGResError"]
        ELSE IF frame_list = << >> THEN [outcome |-> "IndexError"]
        ELSE [outcome |-> "done", anim_def |-> AnimDef(frame_list)]

\* ----------------------------------------------------------------- SpecAnim
\* One animation entry of a visual asset.

MaxAnimFrames == 4
MaxItems == 2

IntItem(n) == [kind |-> "int", n |-> n]

FrameItems ==
    {IntItem(n) : n \in -1..MaxAnimFrames}
      \cup {[kind |-> "range", start |-> a, end |-> b] : a, b \in 0..MaxAnimFrames}
      \cup {[kind |-> "num", n |-> 1], [kind |-> "bad"]}

FrameSpecs ==
    {IntItem(n) : n \in -1..MaxAnimFrames}
      \cup {[kind |-> "str", item |-> it] : it \in {x \in FrameItems : x.kind # "int"}}
      \cup {[kind |-> "list", items |-> items] :
               items \in UNION {[1..k -> FrameItems] : k \in 0..MaxItems}}
      \cup {[kind |-> "other"]}

Animations ==
    {[form |-> "frame", n |-> n] : n \in -1..MaxAnimFrames}
      \cup {[form |-> "plain", n |-> n] : n \in -1..MaxAnimFrames}
      \cup {[form |-> "frames", spec |-> spec] : spec \in FrameSpecs}
      \cup {[form |-> "missing"]}

AnimInit ==
    /\ npc = "anim"
    /\ animation \in Animations
    /\ asset_frames \in 1..MaxAnimFrames
    /\ anim_defs = << >>

ProcessAnimation ==
    /\ npc = "anim"
    /\ LET r == ProcessAnimationEntry(animation, asset_frames)
       IN  /\ npc' = r.outcome
           /\ anim_defs' = IF r.outcome = "done" THEN Append(anim_defs, r.anim_def)
                           ELSE anim_defs
    /\ UNCHANGED <<animation, asset_frames>>
    /\ UNCHANGED exceptAnim

AnimNext == ProcessAnimation

InitAnim ==
    /\ CodecIdle /\ EncodeIdle /\ PackIdle /\ AudioIdle /\ PaletteIdle
    /\ TileIdle /\ FramesIdle /\ SromIdle /\ IndexIdle /\ ColorIdle /\ TmxIdle
    /\ TilemapIdle
    /\ MainIdle
    /\ ReuseIdle
    /\ AnimInit

SpecAnim == InitAnim /\ [][AnimNext]_vars

\* C29: an animation definition designates existing frames only:
\* 0 <= first_frame and first_frame + frame_count <= the frame count of the
\* asset, for every frame list that passes validation.
C29_AnimationFrames ==
    \A i \in 1..Len(anim_defs) :
        /\ 0 <= anim_defs[i].first_frame
        /\ anim_defs[i].first_frame + anim_defs[i].frame_count <= asset_frames

\* What does hold: the first frame exists, the definition has at least one
\* frame, and the claim's bound holds whenever the list that passed
\* validation is a run of consecutive rising indices.
AnimationFirstFrame ==
    \A i \in 1..Len(anim_defs) :
        /\ anim_defs[i].first_frame \in 0..(asset_frames - 1)
        /\ anim_defs[i].frame_count >= 1
        /\ (animation.form # "frames"
              \/ animation.spec.kind \in {"int", "str"}
              \/ (animation.spec.kind = "list" /\ Len(animation.spec.items) = 1)) =>
                 anim_defs[i].first_frame + anim_defs[i].frame_count <= asset_frames

====
